---- MODULE Spec2Model ----
(***************************************************************************)
(* Chart catalog of DC_charts_loader: src/src/models.py (ChartsData,       *)
(* ChartsDailyData, ChartsMinuteData), the table loader, window extractor  *)
(* and indicator engine of src/src/data.py, and the timeframe-change       *)
(* handler of src/src/ui.py.                                               *)
(*                                                                         *)
(* A DataFrame is a sequence of rows in positional order; every row is a   *)
(* record that carries its index label in the field idx.  A date is the    *)
(* number of days since 2023-01-01.  Of the OHLCV columns only close is    *)
(* kept: the others are carried through every operation unchanged.         *)
(***************************************************************************)
EXTENDS Integers, Sequences, FiniteSets, TLC

VARIABLES
    kind,               \* "daily" (ChartsDailyData) or "minute" (ChartsMinuteData)
    indicators,         \* config.indicators: None or a list of Indicator
    charts,             \* self.charts: the catalog table
    data,               \* self.data: the owned price table
    current_index,      \* self.current_index: the cursor
    current_timeframe,  \* self.current_timeframe (ChartsMinuteData only)
    chart,              \* the Chart widget handed to on_timeframe_change
    ret,                \* the last call and what it returned or raised
    pre,                \* the cursor before the last call
    run,                \* the current run of consecutive increase/decrease calls
    n_days_intraday,    \* config.chart.n_days_intraday
    sort_ties,          \* how the build's single-column sort orders equal keys
    frame,              \* the DataFrame or resource handed to a function of data.py
    call,               \* the last call of a function of data.py and its result
    earlier,            \* a call of a function of data.py made before, remembered
    gui,                \* the charts on screen, their catalogs and what the events did
    proc                \* a constructor call, or two threads, in progress

\* what only the direct calls of the functions of data.py change
direct == <<frame, call, earlier>>

\* what no call changes
build == <<n_days_intraday, sort_ties>>

\* what only the user interface, a constructor in progress and threads change
stepwise == <<gui, proc>>

\* no chart is on screen; no constructor or thread is in progress
NoGui == [mode |-> "none"]
NoProc == [of |-> "none"]

vars == <<kind, indicators, charts, data, current_index, current_timeframe,
          chart, ret, pre, run, n_days_intraday, sort_ties, frame, call, earlier,
          gui, proc>>

-----------------------------------------------------------------------------
(* Bounds of the model *)

\* largest number of rows of the catalog resource
MaxN == 3
\* how far outside [0, N-1] the arguments of set_index, load_chart and get_metadata reach
IndexSlack == 2

-----------------------------------------------------------------------------
(* Values *)

\* Optional[T]: None, or Some(x)
None == <<>>
Some(x) == <<x>>

\* the value of an attribute the object does not have
NoAttr == "no attribute"

\* no function of data.py has been called directly
NoCall == [fn |-> "none"]

Tickers == {"AAPL", "MSFT"}

\* str comparison of the tickers, as sort_values orders them
TickerRank(t) == IF t = "AAPL" THEN 0 ELSE 1

\* 2023-01-15 and 2023-02-15
CatalogDates == {14, 45}

\* labels offered by the timeframe switcher
Timeframes == {"1M", "5M", "1D"}

-----------------------------------------------------------------------------
(* Sequences *)

\* the bijections of 1..n
Permutations1(n) == {p \in [1..n -> 1..n] : \A i, j \in 1..n : p[i] = p[j] => i = j}

\* the rows of s at the positions in P, in order
RECURSIVE SelectAt(_, _, _)
SelectAt(s, P, i) ==
    IF i > Len(s) THEN <<>>
    ELSE (IF i \in P THEN <<s[i]>> ELSE <<>>) \o SelectAt(s, P, i + 1)

\* the position in the key sequence k before which key x is inserted: after
\* every key that is not larger, so that equal keys keep their order
RECURSIVE InsertPos(_, _, _)
InsertPos(x, k, i) ==
    IF i > Len(k) \/ x < k[i] THEN i ELSE InsertPos(x, k, i + 1)

InsertAt(s, i, r) == SubSeq(s, 1, i - 1) \o <<r>> \o SubSeq(s, i, Len(s))

\* the positions of k, ordered by ascending key; stable
RECURSIVE ArgSort(_, _)
ArgSort(k, n) ==
    IF n = 0 THEN <<>>
    ELSE LET rest == ArgSort(k, n - 1)
             keys == [i \in 1..(n - 1) |-> k[rest[i]]]
         IN InsertAt(rest, InsertPos(k[n], keys, 1), n)

\* s ordered by ascending key k[i] of row i; stable
StableSort(s, k) == LET o == ArgSort(k, Len(s)) IN [i \in 1..Len(s) |-> s[o[i]]]

Reverse(s) == [i \in 1..Len(s) |-> s[Len(s) + 1 - i]]

-----------------------------------------------------------------------------
(* Dates and their text *)

IsLeap(y) == (y % 4 = 0 /\ y % 100 # 0) \/ y % 400 = 0

DaysInYear(y) == IF IsLeap(y) THEN 366 ELSE 365

DaysInMonth(y, m) ==
    IF m = 2 THEN (IF IsLeap(y) THEN 29 ELSE 28)
    ELSE IF m \in {4, 6, 9, 11} THEN 30 ELSE 31

\* the calendar year of day d, counted from 1 January of year y
RECURSIVE YearFrom(_, _)
YearFrom(d, y) ==
    IF d < DaysInYear(y) THEN [year |-> y, yday |-> d]
    ELSE YearFrom(d - DaysInYear(y), y + 1)

\* the month and day of the yday-th day (from 0) of year y, counted from month m
RECURSIVE MonthFrom(_, _, _)
MonthFrom(yday, y, m) ==
    IF yday < DaysInMonth(y, m) THEN [month |-> m, day |-> yday + 1]
    ELSE MonthFrom(yday - DaysInMonth(y, m), y, m + 1)

\* the calendar fields of a date
Calendar(d) ==
    LET yy == YearFrom(d, 2023)
        md == MonthFrom(yy.yday, yy.year, 1)
    IN [year |-> yy.year, month |-> md.month, day |-> md.day]

\* n in decimal, padded with zeros to w digits
RECURSIVE ZeroPad(_, _)
ZeroPad(n, w) ==
    IF w <= 1 /\ n < 10 THEN ToString(n)
    ELSE ZeroPad(n \div 10, w - 1) \o ToString(n % 10)

\* date.strftime("%Y-%m-%d")
strftime_Ymd(d) ==
    LET c == Calendar(d)
    IN ZeroPad(c.year, 4) \o "-" \o ZeroPad(c.month, 2) \o "-" \o ZeroPad(c.day, 2)

\* pd.Timedelta(days=1), in the unit of a minute table's timestamps: a datetime
\* is the number of seconds since 2023-01-01 00:00:00
Day == 86400

\* datetime.strftime("%Y-%m-%d %H:%M:%S")
strftime_YmdHMS(dt) ==
    LET s == dt % Day
    IN strftime_Ymd(dt \div Day) \o " " \o ZeroPad(s \div 3600, 2) \o ":"
          \o ZeroPad((s % 3600) \div 60, 2) \o ":" \o ZeroPad(s % 60, 2)

-----------------------------------------------------------------------------
(* src/src/config.py *)

\* ChartValidator.n_days_intraday: Field(gt=0, le=20)
N_DAYS_INTRADAY_MAX == 20

-----------------------------------------------------------------------------
(* src/src/data.py *)

N_DAYS == 30

\* reset_index(drop=True): the labels become 0..n-1
reset_index(t) == [i \in 1..Len(t) |-> [t[i] EXCEPT !.idx = i - 1]]

\* pd.read_feather: the rows of the resource under a RangeIndex
read_feather(resource) ==
    [i \in 1..Len(resource) |-> ("idx" :> i - 1) @@ resource[i]]

\* drop_duplicates(subset=["ticker", "date"]): the first row of every pair is kept
drop_duplicates(t) ==
    SelectAt(t, {i \in 1..Len(t) :
                    \A j \in 1..(i - 1) :
                        ~(t[j].ticker = t[i].ticker /\ t[j].date = t[i].date)}, 1)

\* sort_values(by=["ticker", "date"]); dates lie in 0..9999
sort_ticker_date(t) ==
    StableSort(t, [i \in 1..Len(t) |-> TickerRank(t[i].ticker) * 10000 + t[i].date])

load_daily_df(resource) ==
    reset_index(sort_ticker_date(drop_duplicates(read_feather(resource))))

\* every entry with a period is taken for an SMA, whatever its name
IndicatorApplies_any_name(ind) ==
    /\ ind.parameters # None
    /\ "period" \in DOMAIN ind.parameters[1]

\* an entry of config.indicators is usable: its column is computed
IndicatorApplies(ind) ==
    /\ ind.name = "SMA"
    /\ ind.parameters # None
    /\ "period" \in DOMAIN ind.parameters[1]

\* the rolling mean over the rows of all tickers
RollingMean_ungrouped(t, i, period) ==
    LET RECURSIVE Sum(_)
        Sum(j) == IF j <= i - period THEN 0 ELSE t[j].close + Sum(j - 1)
    IN IF i < period
       THEN [nan |-> TRUE, sum |-> 0, n |-> period]
       ELSE [nan |-> FALSE, sum |-> Sum(i), n |-> period]

\* x.rolling(window=period).mean() at position i of the table, within the rows
\* of the same ticker; a mean is kept as the sum of its n closes
RollingMean(t, i, period) ==
    LET group == {j \in 1..i : t[j].ticker = t[i].ticker}
        last  == {j \in group : Cardinality({k \in group : k >= j}) <= period}
        RECURSIVE Sum(_)
        Sum(S) == IF S = {} THEN 0
                  ELSE LET j == CHOOSE j \in S : TRUE IN t[j].close + Sum(S \ {j})
    IN IF Cardinality(group) < period
       THEN [nan |-> TRUE, sum |-> 0, n |-> period]
       ELSE [nan |-> FALSE, sum |-> Sum(last), n |-> period]

\* df[col_name] = df_grouped["close"].transform(...)
AddSMA(t, period) ==
    [i \in 1..Len(t) |->
        (("SMA_" \o ToString(period)) :> RollingMean(t, i, period)) @@ t[i]]

RECURSIVE ApplyList(_, _)
ApplyList(t, list) ==
    IF list = <<>> THEN t
    ELSE LET ind == Head(list)
         IN ApplyList(IF IndicatorApplies(ind)
                      THEN AddSMA(t, ind.parameters[1]["period"]) ELSE t,
                      Tail(list))

\* apply_indicators followed by dropna()
apply_indicators_dropna(df, config_indicators) ==
    LET indicators_list == IF config_indicators # None THEN config_indicators[1] ELSE <<>>
        out == ApplyList(df, indicators_list)
    IN SelectAt(out, {i \in 1..Len(out) :
                        \A f \in DOMAIN out[i] \ DOMAIN df[i] : ~out[i][f].nan}, 1)

apply_indicators(df, config_indicators) ==
    LET indicators_list == IF config_indicators # None THEN config_indicators[1] ELSE <<>>
    IN ApplyList(df, indicators_list)

\* sort_values(by="date") of one column: ascending keys; the order of rows with
\* equal keys is the build's, the same at every call
SortByDate(t) ==
    IF sort_ties = "keep"
    THEN StableSort(t, [i \in 1..Len(t) |-> t[i].date])
    ELSE LET r == Reverse(t) IN StableSort(r, [i \in 1..Len(r) |-> r[i].date])

TiePolicies == {"keep", "reverse"}

\* load_daily_data with the window open at both ends
load_daily_data_exclusive(ticker, date, table) ==
    LET result == SelectAt(table, {i \in 1..Len(table) :
                                      /\ table[i].ticker = ticker
                                      /\ table[i].date > date - N_DAYS
                                      /\ table[i].date < date + N_DAYS}, 1)
    IN reset_index(SortByDate(result))

\* the rows of the ticker dated within N_DAYS of the date, by date, re-indexed
load_daily_data(ticker, date, table) ==
    LET result == SelectAt(table, {i \in 1..Len(table) :
                                      /\ table[i].ticker = ticker
                                      /\ table[i].date >= date - N_DAYS
                                      /\ table[i].date <= date + N_DAYS}, 1)
        sorted == SortByDate(result)
    IN reset_index(sorted)

\* load_daily_data sorting data itself instead of a copy of the selection
load_daily_data_in_place(ticker, date, table) ==
    [value |-> load_daily_data(ticker, date, table), data |-> SortByDate(table)]

\* a call of load_daily_data: what it returns, and data after the call;
\* data.loc[...].copy() is a new frame, the only one sorted and re-indexed
load_daily_data_call(ticker, date, table) ==
    [value |-> load_daily_data(ticker, date, table), data |-> table]

\* tz_localize(None): the wall-clock time without its zone
tz_localize_None(datetime) == datetime.wall

\* sort_values(by=["ticker", "datetime"])
sort_ticker_datetime(t) ==
    LET by_datetime == StableSort(t, [i \in 1..Len(t) |-> t[i].datetime])
    IN StableSort(by_datetime,
                  [i \in 1..Len(t) |-> TickerRank(by_datetime[i].ticker)])

\* the minute table of a resource: naive datetime, date renamed to _date
load_min_data(resource) ==
    LET df      == read_feather(resource)
        renamed == [i \in 1..Len(df) |->
                       [idx |-> df[i].idx, ticker |-> df[i].ticker,
                        datetime |-> tz_localize_None(df[i].datetime),
                        _date |-> df[i].date, close |-> df[i].close]]
    IN reset_index(sort_ticker_datetime(renamed))

\* format_min_chart_data rendering the date only
format_min_chart_data_date_only(df) ==
    [i \in 1..Len(df) |->
        [f \in (DOMAIN df[i] \cup {"time"}) \ {"datetime", "_date"} |->
            IF f = "time" THEN strftime_Ymd(df[i].datetime \div Day) ELSE df[i][f]]]

\* the display form of a minute window: a time column with the text of
\* datetime, without the columns datetime and _date
format_min_chart_data(df) ==
    [i \in 1..Len(df) |->
        [f \in (DOMAIN df[i] \cup {"time"}) \ {"datetime", "_date"} |->
            IF f = "time" THEN strftime_YmdHMS(df[i].datetime) ELSE df[i][f]]]

\* load_min_chart with "n_days or config.chart.n_days_intraday"
load_min_chart_falsy_n_days(ticker, date, table, n_days) ==
    LET radius == IF n_days # None /\ n_days[1] # 0 THEN n_days[1] ELSE n_days_intraday
        result == SelectAt(table, {i \in 1..Len(table) :
                                      /\ table[i].ticker = ticker
                                      /\ table[i].datetime >= date - radius * Day
                                      /\ table[i].datetime <= date + radius * Day}, 1)
    IN format_min_chart_data(result)

\* load_min_chart without the condition on the ticker
load_min_chart_any_ticker(ticker, date, table, n_days) ==
    LET radius == IF n_days # None THEN n_days[1] ELSE n_days_intraday
        result == SelectAt(table, {i \in 1..Len(table) :
                                      /\ table[i].datetime >= date - radius * Day
                                      /\ table[i].datetime <= date + radius * Day}, 1)
    IN format_min_chart_data(result)

\* the rows of the ticker within n_days days of the date (the configured
\* number of days when n_days is None), in display form
load_min_chart(ticker, date, table, n_days) ==
    LET radius == IF n_days # None THEN n_days[1] ELSE n_days_intraday
        result == SelectAt(table, {i \in 1..Len(table) :
                                      /\ table[i].ticker = ticker
                                      /\ table[i].datetime >= date - radius * Day
                                      /\ table[i].datetime <= date + radius * Day}, 1)
    IN format_min_chart_data(result)

\* a call of load_min_chart: what it returns, and data after the call;
\* format_min_chart_data changes in place the copy it is given
load_min_chart_call(ticker, date, table, n_days) ==
    [value |-> load_min_chart(ticker, date, table, n_days), data |-> table]

-----------------------------------------------------------------------------
(* The resources a catalog is constructed from *)

Entry(t, d, c) == [ticker |-> t, date |-> d, close |-> c]

\* the catalog resource: up to MaxN rows, in any order, duplicates included
DictResources ==
    UNION {[1..n -> {Entry(t, d, 1) : t \in Tickers, d \in CatalogDates}] : n \in 1..MaxN}

\* the price resource: unordered, with a duplicate (AAPL, 45) and rows dated
\* exactly N_DAYS and N_DAYS + 1 away from both catalog dates
DataResources ==
    { << Entry("AAPL", 76, 8), Entry("AAPL", 45, 4), Entry("MSFT", 45, 7),
         Entry("AAPL", 14, 2), Entry("AAPL", 75, 6), Entry("AAPL", 45, 5),
         Entry("AAPL", 15, 3), Entry("MSFT", 44, 9) >> }

SMA(p) == [name |-> "SMA", parameters |-> Some([period |-> p])]

\* config.indicators
IndicatorConfigs == {Some(<<SMA(2)>>)}

-----------------------------------------------------------------------------
(* src/src/models.py *)

\* sort_values(by="date") with ascending left at its default
sort_date_ascending(t) ==
    {s \in {[i \in 1..Len(t) |-> t[p[i]]] : p \in Permutations1(Len(t))} :
        \A i, j \in 1..Len(s) : i < j => s[i].date <= s[j].date}

\* sort_values(by="date", ascending=False): every order of the rows that is
\* descending by date; the order of rows of equal date is not specified
sort_date_descending(t) ==
    {s \in {[i \in 1..Len(t) |-> t[p[i]]] : p \in Permutations1(Len(t))} :
        \A i, j \in 1..Len(s) : i < j => s[i].date >= s[j].date}

\* the tables load_dict can leave in self.charts
load_dict(dict_resource) == sort_date_descending(load_daily_df(dict_resource))

\* the table load_data leaves in self.data
load_data(data_resource, config_indicators) ==
    apply_indicators(load_daily_df(data_resource), config_indicators)

N == Len(charts)

\* the arguments tried for an index parameter
IndexInputs == (0 - IndexSlack)..(N - 1 + IndexSlack)

\* t.iloc[index] exists
iloc_valid(t, index) == 0 - Len(t) <= index /\ index < Len(t)

\* t.iloc[index]: a negative index counts from the end
iloc(t, index) == t[(IF index >= 0 THEN index ELSE Len(t) + index) + 1]

Ok(v) == [status |-> "ok", value |-> v]
Raise(e) == [status |-> e]

\* t.loc[label]: the row whose index label is label
loc(t, label) == t[CHOOSE i \in 1..Len(t) : t[i].idx = label]

\* get_metadata that reads self.charts.ticker[index] and self.charts.date[index],
\* by index label instead of by position
ChartsDailyData_get_metadata_by_label(index) ==
    IF ~(index \in 0..(Len(charts) - 1)) THEN Raise("KeyError")
    ELSE LET ticker == loc(charts, index).ticker
             date   == loc(charts, index).date
         IN Ok([ticker |-> ticker, date_str |-> strftime_Ymd(date), date |-> date,
                timeframe |-> "1D", index |-> index])

\* ChartsDailyData.get_metadata
ChartsDailyData_get_metadata(index) ==
    IF ~iloc_valid(charts, index) THEN Raise("IndexError")
    ELSE LET ticker == iloc(charts, index).ticker
             date   == iloc(charts, index).date
         IN Ok([ticker |-> ticker, date_str |-> strftime_Ymd(date), date |-> date,
                timeframe |-> "1D", index |-> index])

\* get_metadata of the intraday catalog with the label of the constructor
\* written in, as the daily catalog writes "1D"
ChartsMinuteData_get_metadata_fixed_label(index, timeframe) ==
    IF ~iloc_valid(charts, index) THEN Raise("IndexError")
    ELSE LET ticker == iloc(charts, index).ticker
             date   == iloc(charts, index).date
         IN Ok([ticker |-> ticker, date_str |-> strftime_Ymd(date), date |-> date,
                timeframe |-> "1M", index |-> index])

\* ChartsMinuteData.get_metadata, with self.current_timeframe = timeframe
ChartsMinuteData_get_metadata(index, timeframe) ==
    IF ~iloc_valid(charts, index) THEN Raise("IndexError")
    ELSE LET ticker == iloc(charts, index).ticker
             date   == iloc(charts, index).date
         IN Ok([ticker |-> ticker, date_str |-> strftime_Ymd(date), date |-> date,
                timeframe |-> timeframe, index |-> index])

\* self.get_metadata(index), with self.current_timeframe = timeframe
get_metadata(index, timeframe) ==
    IF kind = "daily" THEN ChartsDailyData_get_metadata(index)
    ELSE ChartsMinuteData_get_metadata(index, timeframe)

\* load_chart that tests "if not index": index 0 is taken as omitted
load_chart_falsy_index(index, cursor, timeframe) ==
    LET i == IF index = None \/ index = Some(0) THEN cursor ELSE index[1]
        metadata == get_metadata(i, timeframe)
    IN IF metadata.status # "ok" THEN metadata
       ELSE Ok([df |-> load_daily_data(metadata.value.ticker, metadata.value.date, data),
                metadata |-> metadata.value])

\* load_chart computing the indicators again over the window it returns
load_chart_recomputes_indicators(index, cursor, timeframe) ==
    LET i == IF index = None THEN cursor ELSE index[1]
        metadata == get_metadata(i, timeframe)
    IN IF metadata.status # "ok" THEN metadata
       ELSE Ok([df |-> apply_indicators(load_daily_data(metadata.value.ticker,
                                                        metadata.value.date, data),
                                        indicators),
                metadata |-> metadata.value])

\* self.load_chart(index), with self.current_index = cursor and
\* self.current_timeframe = timeframe; index is None when omitted
load_chart(index, cursor, timeframe) ==
    LET i == IF index = None THEN cursor ELSE index[1]
        metadata == get_metadata(i, timeframe)
    IN IF metadata.status # "ok" THEN metadata
       ELSE Ok([df |-> load_daily_data(metadata.value.ticker, metadata.value.date, data),
                metadata |-> metadata.value])

\* increase_index with the bound tested against len(self.charts): the cursor
\* reaches N before it wraps
increase_index_wraps_late(cursor, n) == IF cursor < n THEN cursor + 1 ELSE 0

\* increase_index that wraps only from exactly the last position
increase_index_wraps_at_last_only(cursor, n) == IF cursor = n - 1 THEN 0 ELSE cursor + 1

\* increase_index that does not wrap
increase_index_saturates(cursor, n) == IF cursor < n - 1 THEN cursor + 1 ELSE cursor

\* the cursor increase_index leaves and returns
increase_index(cursor, n) == IF cursor < n - 1 THEN cursor + 1 ELSE 0

\* decrease_index that wraps to len(self.charts), one past the last position
decrease_index_wraps_to_len(cursor, n) == IF cursor > 0 THEN cursor - 1 ELSE n

\* the cursor decrease_index leaves and returns
decrease_index(cursor, n) == IF cursor > 0 THEN cursor - 1 ELSE n - 1

-----------------------------------------------------------------------------
(* src/src/ui.py *)

\* what a call of chart.watermark does: it returns, or raises AttributeError,
\* TypeError, or an exception of another class
WatermarkOutcomes == {"ok", "AttributeError", "TypeError", "Exception"}

\* the text plot_chart puts in the watermark
WatermarkText(metadata) ==
    metadata.ticker \o " " \o metadata.timeframe \o " " \o metadata.date_str

\* the call chart.legend(visible=True, ...) and the chart after it
Legend(r) == [chart |-> [r.chart EXCEPT !.legend = TRUE], status |-> "ok",
              calls |-> Append(r.calls, [method |-> "legend"])]

\* plot_chart with "except Exception" around the first watermark call
plot_chart_run_catches_all(df, metadata, c, outcomes) ==
    LET text == WatermarkText(metadata)
        r0 == [chart |-> [c EXCEPT !.df = Some(df)],
               calls |-> <<[method |-> "set"]>>]
        r1 == [r0 EXCEPT !.calls = Append(@, [method |-> "watermark", text |-> text,
                                               vert_align |-> Some("top")])]
        r2 == [r1 EXCEPT !.calls = Append(@, [method |-> "watermark", text |-> text,
                                               vert_align |-> None])]
        r3 == [r2 EXCEPT !.calls = Append(@, [method |-> "watermark", text |-> "na",
                                               vert_align |-> None])]
    IN IF outcomes[1] = "ok"
       THEN Legend([r1 EXCEPT !.chart.watermark = Some(text)])
       ELSE IF outcomes[2] = "ok"
       THEN Legend([r2 EXCEPT !.chart.watermark = Some(text)])
       ELSE IF outcomes[3] = "ok"
       THEN Legend([r3 EXCEPT !.chart.watermark = Some("na")])
       ELSE [chart |-> r3.chart, status |-> outcomes[3], calls |-> r3.calls]

\* plot_chart(df, metadata, chart) on a chart whose first, second and third
\* watermark calls end as outcomes says: the chart after the call, the method
\* calls made on it, and "ok" or the exception that leaves plot_chart
plot_chart_run(df, metadata, c, outcomes) ==
    LET text == WatermarkText(metadata)
        r0 == [chart |-> [c EXCEPT !.df = Some(df)],
               calls |-> <<[method |-> "set"]>>]
        r1 == [r0 EXCEPT !.calls = Append(@, [method |-> "watermark", text |-> text,
                                               vert_align |-> Some("top")])]
        r2 == [r1 EXCEPT !.calls = Append(@, [method |-> "watermark", text |-> text,
                                               vert_align |-> None])]
        r3 == [r2 EXCEPT !.calls = Append(@, [method |-> "watermark", text |-> "na",
                                               vert_align |-> None])]
    IN IF outcomes[1] = "ok"
       THEN Legend([r1 EXCEPT !.chart.watermark = Some(text)])
       ELSE IF outcomes[1] \notin {"AttributeError", "TypeError"}
       THEN [chart |-> r1.chart, status |-> outcomes[1], calls |-> r1.calls]
       ELSE IF outcomes[2] = "ok"
       THEN Legend([r2 EXCEPT !.chart.watermark = Some(text)])
       ELSE IF outcomes[3] = "ok"
       THEN Legend([r3 EXCEPT !.chart.watermark = Some("na")])
       ELSE [chart |-> r3.chart, status |-> outcomes[3], calls |-> r3.calls]

\* plot_chart on a ChartsWMOverride, whose watermark accepts vert_align
plot_chart(df, metadata, c) ==
    plot_chart_run(df, metadata, c, <<"ok", "ok", "ok">>).chart

\* a step of increase_index whose wrap-around stores the last position
increase_index_step_wraps_to_last(thread, cursor, n) ==
    CASE thread.pc = "test"   -> [thread |-> [thread EXCEPT !.pc = IF cursor < n - 1 THEN "load" ELSE "wrap"],
                                  cursor |-> cursor]
      [] thread.pc = "load"   -> [thread |-> [thread EXCEPT !.pc = "store", !.value = cursor],
                                  cursor |-> cursor]
      [] thread.pc = "store"  -> [thread |-> [thread EXCEPT !.pc = "return"],
                                  cursor |-> thread.value + 1]
      [] thread.pc = "wrap"   -> [thread |-> [thread EXCEPT !.pc = "return"],
                                  cursor |-> n - 1]
      [] thread.pc = "return" -> [thread |-> [thread EXCEPT !.pc = "done", !.value = cursor],
                                  cursor |-> cursor]

\* one step of a thread inside increase_index: the test of the bound, the read
\* and the write of self.current_index += 1, the write of the wrap-around, and
\* the read of the value returned
increase_index_step(thread, cursor, n) ==
    CASE thread.pc = "test"   -> [thread |-> [thread EXCEPT !.pc = IF cursor < n - 1 THEN "load" ELSE "wrap"],
                                  cursor |-> cursor]
      [] thread.pc = "load"   -> [thread |-> [thread EXCEPT !.pc = "store", !.value = cursor],
                                  cursor |-> cursor]
      [] thread.pc = "store"  -> [thread |-> [thread EXCEPT !.pc = "return"],
                                  cursor |-> thread.value + 1]
      [] thread.pc = "wrap"   -> [thread |-> [thread EXCEPT !.pc = "return"],
                                  cursor |-> 0]
      [] thread.pc = "return" -> [thread |-> [thread EXCEPT !.pc = "done", !.value = cursor],
                                  cursor |-> cursor]

\* the symbols of the maximize button
FULLSCREEN == "FULLSCREEN"
CLOSE == "CLOSE"

\* on_maximize that restores the side-by-side view without resetting the button
on_maximize_keeps_button(target_chart, widths, buttons) ==
    IF buttons[target_chart] = CLOSE
    THEN [widths  |-> [c \in DOMAIN widths |-> "0.5"],
          buttons |-> buttons]
    ELSE [widths  |-> [c \in DOMAIN widths |-> IF c = target_chart THEN "1.0" ELSE "0.0"],
          buttons |-> [buttons EXCEPT ![target_chart] = CLOSE]]

\* on_maximize that leaves the other charts at their widths when it maximizes
on_maximize_hides_nothing(target_chart, widths, buttons) ==
    IF buttons[target_chart] = CLOSE
    THEN [widths  |-> [c \in DOMAIN widths |-> "0.5"],
          buttons |-> [buttons EXCEPT ![target_chart] = FULLSCREEN]]
    ELSE [widths  |-> [widths EXCEPT ![target_chart] = "1.0"],
          buttons |-> [buttons EXCEPT ![target_chart] = CLOSE]]

\* on_maximize(target_chart, charts): the widths of the charts and the values of
\* their buttons after the call
on_maximize(target_chart, widths, buttons) ==
    IF buttons[target_chart] = CLOSE
    THEN [widths  |-> [c \in DOMAIN widths |-> "0.5"],
          buttons |-> [buttons EXCEPT ![target_chart] = FULLSCREEN]]
    ELSE [widths  |-> [c \in DOMAIN widths |-> IF c = target_chart THEN "1.0" ELSE "0.0"],
          buttons |-> [buttons EXCEPT ![target_chart] = CLOSE]]

-----------------------------------------------------------------------------
(* The state after construction *)

Init ==
    /\ kind \in {"daily", "minute"}
    /\ indicators \in IndicatorConfigs
    /\ \E dict_resource \in DictResources : charts \in load_dict(dict_resource)
    /\ \E data_resource \in DataResources : data = load_data(data_resource, indicators)
    /\ current_index = 0
    /\ current_timeframe = IF kind = "minute" THEN "1M" ELSE NoAttr
    /\ chart = [df |-> None, watermark |-> None, legend |-> FALSE, timeframe |-> NoAttr]
    /\ ret = [op |-> "__init__"]
    /\ pre = 0
    /\ run = [op |-> "none", len |-> 0, start |-> 0]
    /\ n_days_intraday = N_DAYS_INTRADAY_MAX
    /\ sort_ties = "keep"
    /\ frame = <<>>
    /\ call = NoCall
    /\ earlier = NoCall
    /\ gui = NoGui
    /\ proc = NoProc

-----------------------------------------------------------------------------------------------------------------------------------------------------
(* The calls of the catalog *)

Frozen == UNCHANGED <<kind, indicators, build, direct, stepwise>>

set_index(index) ==
    /\ current_index' = index
    /\ ret' = [op |-> "set_index", arg |-> index]
    /\ pre' = current_index
    /\ Frozen
    /\ UNCHANGED <<charts, data, current_timeframe, chart>>

call_increase_index ==
    /\ current_index' = increase_index(current_index, N)
    /\ ret' = [op |-> "increase_index", status |-> "ok", value |-> current_index']
    /\ pre' = current_index
    /\ Frozen
    /\ UNCHANGED <<charts, data, current_timeframe, chart>>

call_decrease_index ==
    /\ current_index' = decrease_index(current_index, N)
    /\ ret' = [op |-> "decrease_index", status |-> "ok", value |-> current_index']
    /\ pre' = current_index
    /\ Frozen
    /\ UNCHANGED <<charts, data, current_timeframe, chart>>

\* next_chart that loads the chart at the cursor and moves the cursor afterwards
next_chart_loads_before_moving ==
    /\ current_index' = increase_index(current_index, N)
    /\ ret' = [op |-> "next_chart", arg |-> Some(current_index)]
              @@ load_chart(Some(current_index), current_index, current_timeframe)
    /\ pre' = current_index
    /\ Frozen
    /\ UNCHANGED <<charts, data, current_timeframe, chart>>

\* self.load_chart(self.increase_index())
next_chart ==
    /\ current_index' = increase_index(current_index, N)
    /\ ret' = [op |-> "next_chart", arg |-> Some(current_index')]
              @@ load_chart(Some(current_index'), current_index', current_timeframe)
    /\ pre' = current_index
    /\ Frozen
    /\ UNCHANGED <<charts, data, current_timeframe, chart>>

\* self.load_chart(self.decrease_index())
previous_chart ==
    /\ current_index' = decrease_index(current_index, N)
    /\ ret' = [op |-> "previous_chart", arg |-> Some(current_index')]
              @@ load_chart(Some(current_index'), current_index', current_timeframe)
    /\ pre' = current_index
    /\ Frozen
    /\ UNCHANGED <<charts, data, current_timeframe, chart>>

\* load_chart that also stores the index it loaded as the cursor
call_load_chart_moves_cursor(index) ==
    /\ ret' = [op |-> "load_chart", arg |-> index]
              @@ load_chart(index, current_index, current_timeframe)
    /\ current_index' = IF index = None THEN current_index ELSE index[1]
    /\ pre' = current_index
    /\ Frozen
    /\ UNCHANGED <<charts, data, current_timeframe, chart>>

call_load_chart(index) ==
    /\ ret' = [op |-> "load_chart", arg |-> index]
              @@ load_chart(index, current_index, current_timeframe)
    /\ pre' = current_index
    /\ Frozen
    /\ UNCHANGED <<charts, data, current_index, current_timeframe, chart>>

call_get_metadata(index) ==
    /\ ret' = [op |-> "get_metadata", arg |-> index]
              @@ get_metadata(index, current_timeframe)
    /\ pre' = current_index
    /\ Frozen
    /\ UNCHANGED <<charts, data, current_index, current_timeframe, chart>>

\* ChartsMinuteData.set_timeframe
set_timeframe(timeframe) ==
    /\ kind = "minute"
    /\ current_timeframe' = timeframe
    /\ ret' = [op |-> "set_timeframe", arg |-> timeframe]
    /\ pre' = current_index
    /\ Frozen
    /\ UNCHANGED <<charts, data, current_index, chart>>

\* the arguments tried for load_chart: omitted, or an index
LoadChartInputs == {None} \cup {Some(i) : i \in IndexInputs}

\* any sequence of calls on the catalog
Next ==
    \/ \E index \in IndexInputs : set_index(index) /\ UNCHANGED run
    \/ call_increase_index /\ UNCHANGED run
    \/ call_decrease_index /\ UNCHANGED run
    \/ next_chart /\ UNCHANGED run
    \/ previous_chart /\ UNCHANGED run
    \/ \E index \in LoadChartInputs : call_load_chart(index) /\ UNCHANGED run
    \/ \E index \in IndexInputs : call_get_metadata(index) /\ UNCHANGED run
    \/ \E timeframe \in Timeframes : set_timeframe(timeframe) /\ UNCHANGED run

Spec == Init /\ [][Next]_vars

-----------------------------------------------------------------------------
(* Runs of consecutive calls *)

\* one more call of op in a row; a run that has reached N calls starts again
RunOf(op) ==
    run' = IF run.op = op /\ run.len < N
           THEN [run EXCEPT !.len = run.len + 1]
           ELSE [op |-> op, len |-> 1, start |-> current_index]

RunEnds == run' = [op |-> "none", len |-> 0, start |-> 0]

\* the calls that move the cursor, with the runs of increase_index (alone or
\* within next_chart) and of decrease_index (alone or within previous_chart)
NextRun ==
    \/ \E index \in IndexInputs : set_index(index) /\ RunEnds
    \/ call_increase_index /\ RunOf("increase")
    \/ call_decrease_index /\ RunOf("decrease")
    \/ next_chart /\ RunOf("increase")
    \/ previous_chart /\ RunOf("decrease")

SpecRun == Init /\ [][NextRun]_vars

-----------------------------------------------------------------------------
(* The events of the user interface: src/src/ui.py *)

\* on_timeframe_change(chart, chart_data, timeframe)
on_timeframe_change(timeframe) ==
    LET has_set_timeframe == kind = "minute"
        label  == IF has_set_timeframe THEN timeframe ELSE current_timeframe
        loaded == load_chart(Some(current_index), current_index, label)
        c1     == [chart EXCEPT !.timeframe = timeframe]
    IN /\ current_timeframe' = label
       /\ ret' = [op |-> "on_timeframe_change", arg |-> timeframe] @@ loaded
       /\ chart' = IF loaded.status # "ok" THEN c1
                   ELSE LET metadata ==
                                IF has_set_timeframe THEN loaded.value.metadata
                                ELSE [loaded.value.metadata EXCEPT !.timeframe = timeframe]
                        IN plot_chart(loaded.value.df, metadata, c1)
       /\ pre' = current_index
    /\ Frozen
       /\ UNCHANGED <<charts, data, current_index>>

\* the calls the user interface makes on the catalog, and its timeframe events
NextUI ==
    \/ next_chart /\ UNCHANGED run
    \/ previous_chart /\ UNCHANGED run
    \/ \E index \in LoadChartInputs : call_load_chart(index) /\ UNCHANGED run
    \/ \E index \in IndexInputs : call_get_metadata(index) /\ UNCHANGED run
    \/ \E timeframe \in Timeframes : on_timeframe_change(timeframe) /\ UNCHANGED run

SpecUI == Init /\ [][NextUI]_vars

-----------------------------------------------------------------------------
(* Properties of the catalog *)

InRange(i) == i \in 0..(N - 1)

Moves == {"set_index", "increase_index", "decrease_index", "next_chart", "previous_chart"}
Increases == {"increase_index", "next_chart"}
Decreases == {"decrease_index", "previous_chart"}

\* the last call returned a chart: a window and its Metadata
ReturnedChart ==
    /\ ret.op \in {"load_chart", "next_chart", "previous_chart", "on_timeframe_change"}
    /\ ret.status = "ok"

\* C1, as stated: in every state reachable by any sequence of set_index,
\* increase_index, decrease_index, next_chart, previous_chart, load_chart and
\* get_metadata calls the cursor is in [0, N-1].
C1_CursorAlwaysInRange == InRange(current_index)

\* C1, amended: the cursor is 0 after construction, and a call that starts with
\* the cursor in [0, N-1] leaves it in [0, N-1] unless the call is a set_index
\* whose argument is outside [0, N-1]; so the cursor is in [0, N-1] in every
\* state reached by calls whose set_index arguments all lie in [0, N-1].
C1_CursorInRangeUnlessSetOutside ==
    /\ ret.op = "__init__" => current_index = 0 /\ InRange(current_index)
    /\ (ret.op # "__init__" /\ InRange(pre) /\ ~(ret.op = "set_index" /\ ~InRange(ret.arg)))
           => InRange(current_index)

\* C1 witness: next_chart wrapped the cursor from the last position of a
\* three-entry catalog to position 0.
C1_Witness_WrapFromLast ==
    N = 3 /\ ret.op = "next_chart" /\ pre = 2 /\ current_index = 0

\* C2: N calls of increase_index in a row from a position in [0, N-1] bring the
\* cursor back to that position, and so do N calls of decrease_index.
C2_Wraparound ==
    (run.op \in {"increase", "decrease"} /\ run.len = N /\ InRange(run.start))
        => current_index = run.start

\* C2 witness: three increase_index calls in a row on a three-entry catalog,
\* started at the middle position, so that the run passes the wrap.
C2_Witness_FullCycle ==
    N = 3 /\ run.op = "increase" /\ run.len = 3 /\ run.start = 1 /\ current_index = 1

\* C3: from a cursor c in [0, N-1], increase_index leaves c+1 when c < N-1 and 0
\* when c = N-1, decrease_index leaves c-1 when c > 0 and N-1 when c = 0, and
\* each returns the cursor it leaves.
C3_StepAndReturn ==
    /\ (ret.op = "increase_index" /\ InRange(pre)) =>
          /\ pre < N - 1 => current_index = pre + 1
          /\ pre = N - 1 => current_index = 0
          /\ ret.value = current_index
    /\ (ret.op = "decrease_index" /\ InRange(pre)) =>
          /\ pre > 0 => current_index = pre - 1
          /\ pre = 0 => current_index = N - 1
          /\ ret.value = current_index

\* C3 witness: decrease_index at position 0 of a three-entry catalog returned 2.
C3_Witness_DecreaseWraps ==
    N = 3 /\ ret.op = "decrease_index" /\ pre = 0 /\ ret.value = 2 /\ current_index = 2

\* the index the last increase/decrease call returned, which next_chart and
\* previous_chart pass to load_chart
ReturnedIndex == IF ret.op \in {"increase_index", "decrease_index"} THEN ret.value
                 ELSE ret.arg[1]

\* C4, as stated: the index returned by increase_index or decrease_index, and
\* passed by next_chart or previous_chart to load_chart, is in [0, N-1]
\* whatever the cursor was before the call.
C4_ReturnedIndexAlwaysValid ==
    ret.op \in (Increases \cup Decreases) => InRange(ReturnedIndex)

\* C4, amended: the index returned by increase_index (passed on by next_chart)
\* is in [0, N-1] whenever the cursor before the call was at least -1, which
\* covers every value from N-1 up placed by set_index; the index returned by
\* decrease_index (passed on by previous_chart) is in [0, N-1] whenever the
\* cursor before the call was at most N, which covers every value from 0 down.
\* Below -1 increase_index returns cursor + 1 < 0, and above N decrease_index
\* returns cursor - 1 > N - 1.
C4_ReturnedIndexValidFromNear ==
    /\ (ret.op \in Increases /\ pre >= 0 - 1) => InRange(ReturnedIndex)
    /\ (ret.op \in Decreases /\ pre <= N) => InRange(ReturnedIndex)
    /\ (ret.op \in Increases /\ pre < 0 - 1) => ReturnedIndex = pre + 1
    /\ (ret.op \in Decreases /\ pre > N) => ReturnedIndex = pre - 1

\* C4 witness: set_index put the cursor past the end and next_chart passed
\* index 0 to load_chart.
C4_Witness_WrapFromPastEnd ==
    ret.op = "next_chart" /\ pre > N - 1 /\ ReturnedIndex = 0 /\ ret.status = "ok"

\* C5: next_chart moves the cursor to the successor modulo N and previous_chart
\* to the predecessor modulo N before the chart is loaded: the Metadata returned
\* carries the cursor after the call as its index and is the catalog entry at
\* that cursor.
C5_MoveThenLoad ==
    /\ (ret.op \in {"next_chart", "previous_chart"} /\ ret.status = "ok") =>
          /\ ret.value.metadata.index = current_index
          /\ ret.value.metadata.ticker = iloc(charts, current_index).ticker
          /\ ret.value.metadata.date = iloc(charts, current_index).date
    /\ (ret.op = "next_chart" /\ InRange(pre)) =>
          /\ ret.status = "ok"
          /\ current_index = (pre + 1) % N
    /\ (ret.op = "previous_chart" /\ InRange(pre)) =>
          /\ ret.status = "ok"
          /\ current_index = (pre + N - 1) % N

\* C5 witness: next_chart at the last position of a three-entry catalog whose
\* first and last entries differ returned the Metadata of position 0.
C5_Witness_NextWraps ==
    /\ N = 3 /\ ret.op = "next_chart" /\ pre = 2 /\ current_index = 0
    /\ ret.status = "ok" /\ ret.value.metadata.index = 0
    /\ ret.value.metadata.date # charts[3].date

\* a row without its index label
Columns(r) == [f \in DOMAIN r \ {"idx"} |-> r[f]]

\* W is the window of the table for the ticker around the date with the radius:
\* exactly the rows of the ticker dated within the radius, by ascending date,
\* under the index labels 0..n-1
IsWindow(W, ticker, date, table, radius) ==
    LET wanted == {i \in 1..Len(table) :
                      /\ table[i].ticker = ticker
                      /\ table[i].date >= date - radius
                      /\ table[i].date <= date + radius}
    IN /\ Len(W) = Cardinality(wanted)
       /\ {Columns(W[i]) : i \in 1..Len(W)} = {Columns(table[i]) : i \in wanted}
       /\ \A i \in 1..Len(W) : W[i].idx = i - 1
       /\ \A i, j \in 1..Len(W) : i < j => W[i].date < W[j].date

\* (W, M) is the chart of position i: M is get_metadata(i) and W the window of
\* the owned price table for M.ticker around M.date (of 30 days on the daily
\* catalog)
IsChartOf(pair, i) ==
    /\ get_metadata(i, current_timeframe).status = "ok"
    /\ pair.metadata = get_metadata(i, current_timeframe).value
    /\ pair.metadata.index = i
    /\ pair.metadata.ticker = charts[i + 1].ticker
    /\ pair.metadata.date = charts[i + 1].date
    /\ IF kind = "daily"
       THEN IsWindow(pair.df, pair.metadata.ticker, pair.metadata.date, data, N_DAYS)
       ELSE \E radius \in 0..N_DAYS :
               IsWindow(pair.df, pair.metadata.ticker, pair.metadata.date, data, radius)

\* C6: load_chart(i) for a valid index i returns (W, M) with M = get_metadata(i)
\* and W the window of the owned price table for M.ticker around M.date;
\* load_chart() returns the chart of the cursor; index 0 given explicitly is
\* index 0, not the cursor.
C6_LoadChartPair ==
    ret.op = "load_chart" =>
        /\ (ret.arg # None /\ InRange(ret.arg[1])) =>
              ret.status = "ok" /\ IsChartOf(ret.value, ret.arg[1])
        /\ (ret.arg = None /\ InRange(current_index)) =>
              ret.status = "ok" /\ IsChartOf(ret.value, current_index)

\* C6 witness: load_chart(0) with the cursor on position 2 of a catalog whose
\* positions 0 and 2 differ returned a window of several rows.
C6_Witness_ExplicitZero ==
    /\ N = 3 /\ ret.op = "load_chart" /\ ret.arg = Some(0) /\ current_index = 2
    /\ ret.status = "ok" /\ Len(ret.value.df) >= 3
    /\ Columns(charts[1]) # Columns(charts[3])

\* C7: on a daily catalog get_metadata(i) for a valid position i returns the
\* ticker and date of the entry at position i, the date as YYYY-MM-DD, index i
\* and timeframe "1D"; every Metadata the daily catalog returns has timeframe
\* "1D", whatever navigation and timeframe-change events came before.
C7_DailyMetadata ==
    kind = "daily" =>
        /\ (ret.op = "get_metadata" /\ InRange(ret.arg)) =>
              /\ ret.status = "ok"
              /\ ret.value.ticker = charts[ret.arg + 1].ticker
              /\ ret.value.date = charts[ret.arg + 1].date
              /\ ret.value.date_str = strftime_Ymd(charts[ret.arg + 1].date)
              /\ ret.value.date = 14 => ret.value.date_str = "2023-01-15"
              /\ ret.value.date = 45 => ret.value.date_str = "2023-02-15"
              /\ ret.value.index = ret.arg
              /\ ret.value.timeframe = "1D"
        /\ (ret.op = "get_metadata" /\ ret.status = "ok") => ret.value.timeframe = "1D"
        /\ ReturnedChart => ret.value.metadata.timeframe = "1D"

\* C7 witness: after the chart was switched to "5M" and the cursor moved,
\* get_metadata(0) on a daily catalog whose positions 0 and 1 have different
\* dates returned 2023-02-15 at "1D".
C7_Witness_AfterTimeframeChange ==
    /\ kind = "daily" /\ chart.timeframe = "5M" /\ current_index = 1
    /\ ret.op = "get_metadata" /\ ret.arg = 0 /\ ret.status = "ok"
    /\ ret.value.date_str = "2023-02-15" /\ ret.value.timeframe = "1D"
    /\ charts[2].date = 14

\* C8: only set_index, increase_index, decrease_index, next_chart and
\* previous_chart change the cursor: load_chart, get_metadata and set_timeframe
\* leave it, and get_metadata changes nothing of the catalog.
C8_CursorFrame ==
    [][/\ ret'.op \notin Moves => current_index' = current_index
       /\ ret'.op = "get_metadata" =>
             UNCHANGED <<kind, charts, data, current_index, current_timeframe>>]_vars

\* C8 witness: load_chart(1) returned the chart of position 1 with the cursor
\* on position 2 before and after.
C8_Witness_LoadElsewhere ==
    /\ ret.op = "load_chart" /\ ret.arg = Some(1) /\ ret.status = "ok"
    /\ pre = 2 /\ current_index = 2

SortedByDateDescending ==
    \A i, j \in 1..N : i < j => charts[i].date >= charts[j].date

\* C9: the catalog is ordered by date descending after construction, and no
\* call changes the catalog's rows, their order or the owned price table.
C9_CatalogFrozen ==
    /\ []SortedByDateDescending
    /\ [][UNCHANGED <<charts, data>>]_vars

\* C9 witness: a three-entry catalog with the most recent date first and an
\* older one last, after previous_chart wrapped to the last position.
C9_Witness_SortedAfterCalls ==
    /\ N = 3 /\ charts[1].date > charts[3].date
    /\ ret.op = "previous_chart" /\ pre = 0 /\ current_index = 2

\* C10: an intraday catalog starts with label "1M" and cursor 0; set_timeframe(L)
\* changes the label to L and nothing else; no other call changes the label;
\* every Metadata returned carries the current label.
C10_TimeframeLabel ==
    /\ [](kind = "minute" =>
            /\ ret.op = "__init__" => current_timeframe = "1M" /\ current_index = 0
            /\ (ret.op = "get_metadata" /\ ret.status = "ok") =>
                  ret.value.timeframe = current_timeframe
            /\ ReturnedChart => ret.value.metadata.timeframe = current_timeframe)
    /\ [][kind = "minute" =>
            /\ ret'.op = "set_timeframe" =>
                  /\ current_timeframe' = ret'.arg
                  /\ UNCHANGED <<kind, charts, data, current_index>>
            /\ ret'.op # "set_timeframe" => current_timeframe' = current_timeframe]_vars

\* C10 witness: after set_timeframe("5M") and a move of the cursor, next_chart
\* on an intraday catalog returned Metadata labelled "5M".
C10_Witness_LabelSurvivesMove ==
    /\ kind = "minute" /\ ret.op = "next_chart" /\ ret.status = "ok"
    /\ ret.value.metadata.timeframe = "5M" /\ current_index = 1 /\ pre = 0

\* C11: the intraday catalog's load_chart extracts its window through the
\* intraday path: every chart an intraday catalog returns holds exactly the rows
\* of the ticker within n_days_intraday days of the reference date, in display
\* form (a time column, neither a date nor a datetime column).
C11_MinuteChartIntradayPath ==
    (kind = "minute" /\ ReturnedChart) =>
        LET W == ret.value.df
            M == ret.value.metadata
        IN /\ \A i \in 1..Len(W) :
                 /\ "time" \in DOMAIN W[i]
                 /\ "date" \notin DOMAIN W[i]
                 /\ "datetime" \notin DOMAIN W[i]
           /\ Len(W) = Cardinality({j \in 1..Len(data) :
                                       /\ data[j].ticker = M.ticker
                                       /\ data[j].date >= M.date - n_days_intraday
                                       /\ data[j].date <= M.date + n_days_intraday})

-----------------------------------------------------------------------------
(* Direct calls of the window extractor: load_daily_data, load_min_chart *)

\* the longest frame handed to a function of data.py
MaxRows == 2

\* no catalog is constructed
NoCatalog ==
    /\ kind = "none"
    /\ charts = <<>>
    /\ data = <<>>
    /\ current_index = 0
    /\ current_timeframe = NoAttr
    /\ chart = [df |-> None, watermark |-> None, legend |-> FALSE, timeframe |-> NoAttr]
    /\ ret = [op |-> "none"]
    /\ pre = 0
    /\ run = [op |-> "none", len |-> 0, start |-> 0]

\* no user interface, constructor or thread takes part
Idle == gui = NoGui /\ proc = NoProc

catalog == <<kind, charts, data, current_index, current_timeframe, chart, ret, pre, run,
             stepwise>>

\* the dates of the daily frames and the reference dates of the calls: 15 is
\* N_DAYS before 45 and N_DAYS + 1 before 46, 76 is N_DAYS + 1 after 45 and
\* N_DAYS after 46
WindowDates == {15, 45, 76}
WindowRefs == {45, 46}

\* 2023-02-15 09:30:00
T0930 == 45 * Day + 9 * 3600 + 30 * 60

\* the timestamps of the minute frames and the reference timestamps of the
\* calls: one day before T0930, T0930, and one day and one minute after it
WindowDatetimes == {T0930 - Day, T0930, T0930 + Day + 60}
WindowDatetimeRefs == {T0930, T0930 + 60}

\* the tickers asked for: TSLA is in no frame
WindowTickers == {"AAPL", "TSLA"}

\* the values of config.chart.n_days_intraday and of the argument n_days
IntradayRadii == {1, 2}
NDaysArgs == {None, Some(0), Some(1)}

\* daily frames of up to MaxRows rows in any order, equal dates included; the
\* close of a row tells the rows apart
DailyFrames ==
    UNION {{[i \in 1..n |-> [idx |-> i - 1, ticker |-> f[i][1], date |-> f[i][2],
                            close |-> i]] :
               f \in [1..n -> Tickers \X WindowDates]} : n \in 0..MaxRows}

\* minute frames, as load_min_data shapes them, in any order
MinuteFrames ==
    UNION {{[i \in 1..n |-> [idx |-> i - 1, ticker |-> f[i][1], datetime |-> f[i][2],
                            _date |-> f[i][2] \div Day, close |-> i]] :
               f \in [1..n -> Tickers \X WindowDatetimes]} : n \in 0..MaxRows}

HasColumn(t, c) == \A i \in 1..Len(t) : c \in DOMAIN t[i]

\* a daily frame under either tie order of the sort (load_daily_data reads no
\* configuration), or a minute frame under either configured radius
\* (load_min_chart sorts nothing)
InitWindow ==
    /\ NoCatalog
    /\ Idle
    /\ indicators = None
    /\ \/ /\ frame \in DailyFrames
          /\ sort_ties \in TiePolicies
          /\ n_days_intraday = N_DAYS_INTRADAY_MAX
       \/ /\ frame \in MinuteFrames
          /\ sort_ties = "keep"
          /\ n_days_intraday \in IntradayRadii
    /\ call = NoCall
    /\ earlier = NoCall

\* load_daily_data(ticker, date, frame)
call_load_daily_data(ticker, date) ==
    /\ HasColumn(frame, "date")
    /\ LET e == load_daily_data_call(ticker, date, frame)
       IN /\ call' = [fn |-> "load_daily_data", ticker |-> ticker, date |-> date,
                      n_days |-> None, data |-> frame, status |-> "ok",
                      value |-> e.value]
          /\ frame' = e.data
    /\ UNCHANGED <<catalog, indicators, build>>

\* load_min_chart(ticker, date, frame, n_days)
call_load_min_chart(ticker, date, n_days) ==
    /\ HasColumn(frame, "datetime")
    /\ LET e == load_min_chart_call(ticker, date, frame, n_days)
       IN /\ call' = [fn |-> "load_min_chart", ticker |-> ticker, date |-> date,
                      n_days |-> n_days, data |-> frame, status |-> "ok",
                      value |-> e.value]
          /\ frame' = e.data
    /\ UNCHANGED <<catalog, indicators, build>>

NextWindow ==
    \/ \E ticker \in WindowTickers, date \in WindowRefs :
          call_load_daily_data(ticker, date) /\ UNCHANGED earlier
    \/ \E ticker \in WindowTickers, date \in WindowDatetimeRefs, n_days \in NDaysArgs :
          call_load_min_chart(ticker, date, n_days) /\ UNCHANGED earlier

SpecWindow == InitWindow /\ [][NextWindow]_vars

\* the rows of the frame a window of the radius takes: those of the ticker with
\* the timestamp column at most the radius from the reference
Wanted(t, column, ticker, reference, radius) ==
    {i \in 1..Len(t) : /\ t[i].ticker = ticker
                       /\ t[i][column] >= reference - radius
                       /\ t[i][column] <= reference + radius}

\* C12: for every ticker, reference date and price table, load_daily_data
\* returns exactly the rows of the ticker dated in [reference - 30, reference + 30],
\* both bounds included: no other row, and as many rows as match in the table.
C12_DailyWindowRows ==
    call.fn = "load_daily_data" =>
        LET wanted == {i \in 1..Len(call.data) :
                          /\ call.data[i].ticker = call.ticker
                          /\ call.data[i].date >= call.date - 30
                          /\ call.data[i].date <= call.date + 30}
        IN /\ Len(call.value) = Cardinality(wanted)
           /\ {Columns(call.value[k]) : k \in 1..Len(call.value)}
                 = {Columns(call.data[i]) : i \in wanted}

\* C12 witness: of two rows of the ticker, one dated 30 days before the
\* reference and one 31 days after it, the window holds the first alone.
C12_Witness_BoundaryRows ==
    /\ call.fn = "load_daily_data" /\ call.ticker = "AAPL" /\ call.date = 45
    /\ Len(call.data) = 2
    /\ call.data[1].ticker = "AAPL" /\ call.data[1].date = 76
    /\ call.data[2].ticker = "AAPL" /\ call.data[2].date = 15
    /\ Len(call.value) = 1 /\ call.value[1].date = 15

\* the timestamp of a row of the window returned by the last call: its date on
\* the daily path, on the intraday path the datetime of the row of the frame it
\* was taken from
TimestampOf(row) ==
    IF call.fn = "load_daily_data" THEN row.date
    ELSE LET j == CHOOSE j \in 1..Len(call.data) : call.data[j].close = row.close
         IN call.data[j].datetime

\* C13: every window returned by load_daily_data and by load_min_chart has its
\* rows in ascending timestamp order under the index labels 0..n-1, whatever
\* the order and the labels of the rows of the frame.
C13_WindowSortedDense ==
    call.fn \in {"load_daily_data", "load_min_chart"} =>
        LET W == call.value
        IN /\ \A k \in 1..Len(W) : W[k].idx = k - 1
           /\ \A k \in 1..(Len(W) - 1) : TimestampOf(W[k]) <= TimestampOf(W[k + 1])

-----------------------------------------------------------------------------
(* Repeated calls of the window extractor *)

\* the call remembered is kept; while none is, the call made before this one
\* may be remembered
Remember == earlier' \in {earlier} \cup (IF earlier = NoCall THEN {call} ELSE {})

NextRepeat ==
    \/ \E ticker \in WindowTickers, date \in WindowRefs :
          call_load_daily_data(ticker, date) /\ Remember
    \/ \E ticker \in WindowTickers, date \in WindowDatetimeRefs, n_days \in NDaysArgs :
          call_load_min_chart(ticker, date, n_days) /\ Remember

SpecRepeat == InitWindow /\ [][NextRepeat]_vars

Matching ==
    IF call.fn = "load_daily_data"
    THEN Wanted(call.data, "date", call.ticker, call.date, 30)
    ELSE Wanted(call.data, "datetime", call.ticker, call.date,
                (IF call.n_days # None THEN call.n_days[1] ELSE n_days_intraday) * Day)

\* C15: when the frame has no row of the ticker, or none within the radius of
\* the reference, load_daily_data and load_min_chart return an empty window and
\* do not raise.
C15_MissIsEmpty ==
    (call.fn \in {"load_daily_data", "load_min_chart"} /\ Matching = {}) =>
        call.status = "ok" /\ call.value = <<>>

\* C15 witness: load_min_chart returned an empty window for a ticker whose two
\* rows in the frame are both outside the radius.
C15_Witness_OutOfRange ==
    /\ call.fn = "load_min_chart" /\ call.ticker = "AAPL"
    /\ Len(call.data) = 2
    /\ call.data[1].ticker = "AAPL" /\ call.data[2].ticker = "AAPL"
    /\ call.status = "ok" /\ call.value = <<>>

\* C16: load_min_chart takes as radius the argument n_days whenever one is
\* given, 0 included, and the configured n_days_intraday only without it; it
\* returns exactly the rows of the ticker with datetime in
\* [reference - radius days, reference + radius days], both bounds included.
C16_IntradayRadius ==
    call.fn = "load_min_chart" =>
        LET radius == IF call.n_days = None THEN n_days_intraday ELSE call.n_days[1]
            wanted == {i \in 1..Len(call.data) :
                          /\ call.data[i].ticker = call.ticker
                          /\ call.data[i].datetime >= call.date - radius * 86400
                          /\ call.data[i].datetime <= call.date + radius * 86400}
        IN /\ Len(call.value) = Cardinality(wanted)
           /\ {<<call.value[k].ticker, call.value[k].close>> : k \in 1..Len(call.value)}
                 = {<<call.data[i].ticker, call.data[i].close>> : i \in wanted}

\* C16 witness: with 2 days configured, n_days = 0 returned the row at the
\* reference timestamp and not the row of the ticker one day before it.
C16_Witness_ZeroDays ==
    /\ call.fn = "load_min_chart" /\ call.n_days = Some(0) /\ n_days_intraday = 2
    /\ call.ticker = "AAPL" /\ call.date = T0930
    /\ Len(call.data) = 2
    /\ call.data[1].ticker = "AAPL" /\ call.data[1].datetime = T0930
    /\ call.data[2].ticker = "AAPL" /\ call.data[2].datetime = T0930 - Day
    /\ Len(call.value) = 1 /\ call.value[1].close = 1

-----------------------------------------------------------------------------
(* Direct calls of the display formatting: format_min_chart_data *)

\* 2023-01-15 14:30:00, 2023-12-31 23:59:59, 2024-02-29 00:00:00
FormatDatetimes == {14 * Day + 14 * 3600 + 30 * 60, 364 * Day + 86399, 424 * Day}

\* the index labels of a frame start at 0, or are those of a selection of rows
LabelOffsets == {0, 5}

\* minute frames of up to MaxRows rows, with or without the column _date
FormatFrames ==
    UNION {{[i \in 1..n |->
                LET row == [idx |-> i - 1 + o, ticker |-> f[i][1],
                            datetime |-> f[i][2], close |-> i]
                IN IF with_date THEN ("_date" :> f[i][2] \div Day) @@ row ELSE row] :
               f \in [1..n -> Tickers \X FormatDatetimes],
               o \in LabelOffsets, with_date \in BOOLEAN} : n \in 0..MaxRows}

InitFormat ==
    /\ NoCatalog
    /\ Idle
    /\ indicators = None
    /\ n_days_intraday = N_DAYS_INTRADAY_MAX
    /\ sort_ties = "keep"
    /\ frame \in FormatFrames
    /\ call = NoCall
    /\ earlier = NoCall

\* format_min_chart_data(frame): the frame itself is changed and returned;
\* df["datetime"] of a frame without that column raises KeyError
call_format_min_chart_data ==
    /\ IF HasColumn(frame, "datetime")
       THEN /\ call' = [fn |-> "format_min_chart_data", data |-> frame,
                        status |-> "ok", value |-> format_min_chart_data(frame)]
            /\ frame' = format_min_chart_data(frame)
       ELSE /\ call' = [fn |-> "format_min_chart_data", data |-> frame,
                        status |-> "KeyError"]
            /\ frame' = frame
    /\ UNCHANGED <<catalog, indicators, build, earlier>>

NextFormat == call_format_min_chart_data

SpecFormat == InitFormat /\ [][NextFormat]_vars

\* the text of the timestamps of the frames
TimeText(dt) ==
    CASE dt = 14 * 86400 + 14 * 3600 + 30 * 60 -> "2023-01-15 14:30:00"
      [] dt = 364 * 86400 + 86399              -> "2023-12-31 23:59:59"
      [] dt = 424 * 86400                      -> "2024-02-29 00:00:00"

-----------------------------------------------------------------------------
(* Direct calls of the table loader: load_daily_df, load_min_data *)

\* daily resources of up to MaxRows rows in any order, equal (ticker, date)
\* pairs included
DailyResources ==
    UNION {{[i \in 1..n |-> Entry(f[i][1], f[i][2], i)] :
               f \in [1..n -> Tickers \X WindowDates]} : n \in 0..MaxRows}

\* minute resources: the datetime of a row carries a time zone
MinuteResources ==
    UNION {{[i \in 1..n |-> [ticker |-> f[i][1],
                            datetime |-> [wall |-> f[i][2], tz |-> "UTC"],
                            date |-> f[i][2] \div Day, close |-> i]] :
               f \in [1..n -> Tickers \X WindowDatetimes]} : n \in 0..MaxRows}

InitLoad ==
    /\ NoCatalog
    /\ Idle
    /\ indicators = None
    /\ n_days_intraday = N_DAYS_INTRADAY_MAX
    /\ sort_ties = "keep"
    /\ frame \in DailyResources \cup MinuteResources
    /\ call = NoCall
    /\ earlier = NoCall

IsMinuteResource(resource) == \A i \in 1..Len(resource) : "datetime" \in DOMAIN resource[i]

\* load_daily_df(frame): the resource is read, not written
call_load_daily_df ==
    /\ ~IsMinuteResource(frame) \/ frame = <<>>
    /\ call' = [fn |-> "load_daily_df", data |-> frame, status |-> "ok",
                value |-> load_daily_df(frame)]
    /\ UNCHANGED <<catalog, indicators, build, frame, earlier>>

\* load_min_data(frame)
call_load_min_data ==
    /\ IsMinuteResource(frame)
    /\ call' = [fn |-> "load_min_data", data |-> frame, status |-> "ok",
                value |-> load_min_data(frame)]
    /\ UNCHANGED <<catalog, indicators, build, frame, earlier>>

NextLoad ==
    \/ call_load_daily_df
    \/ call_load_min_data

SpecLoad == InitLoad /\ [][NextLoad]_vars

\* row a comes strictly before row b in the order of (ticker, timestamp)
StrictlyBefore(a, b, column) ==
    \/ TickerRank(a.ticker) < TickerRank(b.ticker)
    \/ a.ticker = b.ticker /\ a[column] < b[column]

\* the table the last call returned is strictly ascending by (ticker, column)
\* under the index labels 0..n-1
StrictlySorted(column) ==
    /\ \A k \in 1..Len(call.value) : call.value[k].idx = k - 1
    /\ \A k \in 1..(Len(call.value) - 1) :
          StrictlyBefore(call.value[k], call.value[k + 1], column)

\* C18: every table returned by load_daily_df and by load_min_data is strictly
\* ascending by (ticker, timestamp) under the index labels 0..n-1, and so holds
\* no two rows of the same (ticker, timestamp), whatever the order and the
\* duplicates of the rows of the resource.
C18_LoadedStrictlySorted ==
    /\ call.fn = "load_daily_df" => StrictlySorted("date")
    /\ call.fn = "load_min_data" => StrictlySorted("datetime")

-----------------------------------------------------------------------------
(* Direct calls of the indicator engine: apply_indicators *)

\* the longest frame handed to apply_indicators, the scenario frame apart
MaxIndicatorRows == 3

IndicatorCloses == {1, 4}

\* daily frames of up to MaxIndicatorRows rows, dated by position, the rows of
\* the tickers in any interleaving
IndicatorFrames ==
    UNION {{[i \in 1..n |-> [idx |-> i - 1, ticker |-> f[i][1], date |-> i,
                            close |-> f[i][2]]] :
               f \in [1..n -> Tickers \X IndicatorCloses]} : n \in 0..MaxIndicatorRows}

\* AAPL closes 100, 102, 104, 103, 105 on five consecutive days
ScenarioFrame ==
    [i \in 1..5 |-> [idx |-> i - 1, ticker |-> "AAPL", date |-> i,
                     close |-> <<100, 102, 104, 103, 105>>[i]]]

\* values of config.indicators: none, an empty list, SMA of one and of two
\* periods, SMA without parameters or without a period, another indicator,
\* and lists of a usable and an unusable entry in either order
AllIndicatorConfigs ==
    {None, Some(<<>>), Some(<<SMA(2)>>), Some(<<SMA(3)>>), Some(<<SMA(2), SMA(3)>>),
     Some(<<[name |-> "SMA", parameters |-> None]>>),
     Some(<<[name |-> "SMA", parameters |-> Some([window |-> 2])]>>),
     Some(<<[name |-> "EMA", parameters |-> Some([period |-> 2])]>>),
     Some(<<[name |-> "EMA", parameters |-> Some([period |-> 2])], SMA(3)>>),
     Some(<<SMA(2), [name |-> "SMA", parameters |-> None]>>)}

InitIndicators ==
    /\ NoCatalog
    /\ Idle
    /\ indicators \in AllIndicatorConfigs
    /\ n_days_intraday = N_DAYS_INTRADAY_MAX
    /\ sort_ties = "keep"
    /\ frame \in IndicatorFrames \cup {ScenarioFrame}
    /\ call = NoCall
    /\ earlier = NoCall

\* apply_indicators(frame): the columns are added to the frame itself, which
\* is returned
call_apply_indicators ==
    /\ call' = [fn |-> "apply_indicators", data |-> frame, status |-> "ok",
                value |-> apply_indicators(frame, indicators)]
    /\ frame' = apply_indicators(frame, indicators)
    /\ UNCHANGED <<catalog, indicators, build, earlier>>

NextIndicators == call_apply_indicators

SpecIndicators == InitIndicators /\ [][NextIndicators]_vars

\* C19: apply_indicators drops, adds and reorders no row: the table returned
\* has the rows of the frame in the same order with the same values in every
\* column the frame had, and apart from them indicator columns only.
C19_RowsKept ==
    call.fn = "apply_indicators" =>
        /\ Len(call.value) = Len(call.data)
        /\ \A k \in 1..Len(call.value) :
              /\ \A f \in DOMAIN call.data[k] :
                    f \in DOMAIN call.value[k] /\ call.value[k][f] = call.data[k][f]
              /\ DOMAIN call.value[k] \ DOMAIN call.data[k] \subseteq {"SMA_2", "SMA_3"}

\* C19 witness: SMA columns of two periods were added to a frame of three rows
\* in which a row of MSFT stands between two rows of AAPL.
C19_Witness_TwoColumns ==
    /\ call.fn = "apply_indicators" /\ Len(call.data) = 3
    /\ call.data[1].ticker = "AAPL" /\ call.data[2].ticker = "MSFT"
    /\ call.data[3].ticker = "AAPL"
    /\ DOMAIN call.data[1] = {"idx", "ticker", "date", "close"}
    /\ DOMAIN call.value[1] = {"idx", "ticker", "date", "close", "SMA_2", "SMA_3"}

\* the positions up to k of the rows of the ticker of row k, in row order
RECURSIVE TickerRows(_, _, _)
TickerRows(t, k, j) ==
    IF j > k THEN <<>>
    ELSE (IF t[j].ticker = t[k].ticker THEN <<j>> ELSE <<>>) \o TickerRows(t, k, j + 1)

\* the sum of the closes at the positions
RECURSIVE SumCloses(_, _)
SumCloses(t, positions) ==
    IF positions = <<>> THEN 0
    ELSE t[Head(positions)].close + SumCloses(t, Tail(positions))

\* the periods of the SMA indicators of the configuration
ConfiguredPeriods ==
    IF indicators = None THEN {}
    ELSE {p \in {2, 3} : \E i \in 1..Len(indicators[1]) :
                            indicators[1][i] = SMA(p)}

\* C20: for an SMA indicator of period p the column SMA_p is computed per
\* ticker in row order: the first p-1 rows of a ticker hold a missing value, the
\* k-th row of a ticker (k >= p) the mean of the closes of rows k-p+1..k of that
\* ticker, and of no other; closes 100, 102, 104, 103, 105 with p = 3 give
\* missing, missing, 102, 103, 104.
C20_SMAPerTicker ==
    call.fn = "apply_indicators" =>
        /\ \A p \in ConfiguredPeriods : \A i \in 1..Len(call.value) :
              LET own   == TickerRows(call.data, i, 1)
                  k     == Len(own)
                  value == call.value[i]["SMA_" \o ToString(p)]
              IN IF k < p THEN value.nan
                 ELSE /\ ~value.nan
                      /\ value.n = p
                      /\ value.sum = SumCloses(call.data, SubSeq(own, k - p + 1, k))
        /\ (call.data = ScenarioFrame /\ 3 \in ConfiguredPeriods) =>
              /\ call.value[1].SMA_3.nan /\ call.value[2].SMA_3.nan
              /\ \A i \in 3..5 :
                    /\ ~call.value[i].SMA_3.nan
                    /\ call.value[i].SMA_3.sum
                          = call.value[i].SMA_3.n * <<0, 0, 102, 103, 104>>[i]

\* C20 witness: SMA_2 of a frame AAPL 1, MSFT 4, AAPL 4 is missing in the first
\* two rows and the mean of the two closes of AAPL, 5 / 2, in the third.
C20_Witness_Interleaved ==
    /\ call.fn = "apply_indicators" /\ 2 \in ConfiguredPeriods
    /\ Len(call.data) = 3
    /\ call.data[1].ticker = "AAPL" /\ call.data[1].close = 1
    /\ call.data[2].ticker = "MSFT" /\ call.data[2].close = 4
    /\ call.data[3].ticker = "AAPL" /\ call.data[3].close = 4
    /\ call.value[1].SMA_2.nan /\ call.value[2].SMA_2.nan
    /\ call.value[3].SMA_2 = [nan |-> FALSE, sum |-> 5, n |-> 2]

\* C21: an entry of config.indicators whose name is not "SMA", or whose
\* parameters are None or lack "period", raises nothing and adds no column; the
\* usable entries of the same list are applied; with no usable entry the table
\* is returned as it was.
C21_MisconfigurationIgnored ==
    call.fn = "apply_indicators" =>
        /\ call.status = "ok"
        /\ Len(call.value) = Len(call.data)
        /\ \A k \in 1..Len(call.value) :
              DOMAIN call.value[k]
                 = DOMAIN call.data[k] \cup {"SMA_" \o ToString(p) : p \in ConfiguredPeriods}
        /\ ConfiguredPeriods = {} => call.value = call.data

\* C21 witness: of the list (EMA with period 2, SMA with period 3) only the
\* column SMA_3 was added to a frame of three rows.
C21_Witness_MixedList ==
    /\ call.fn = "apply_indicators" /\ Len(call.data) = 3
    /\ indicators = Some(<<[name |-> "EMA", parameters |-> Some([period |-> 2])], SMA(3)>>)
    /\ DOMAIN call.data[1] = {"idx", "ticker", "date", "close"}
    /\ DOMAIN call.value[1] = {"idx", "ticker", "date", "close", "SMA_3"}

-----------------------------------------------------------------------------
(* Indicator columns of the windows a catalog returns *)

\* C30: the indicator columns of a window of a daily catalog are those computed
\* once over the whole price table at load time: SMA_p of a window row is the
\* mean of the p latest closes of the ticker in the price table up to that row,
\* missing only when the price table has fewer than p such rows, whatever the
\* window the row is returned in.
C30_IndicatorsFromFullHistory ==
    (kind = "daily" /\ ReturnedChart) =>
        \A p \in ConfiguredPeriods : \A k \in 1..Len(ret.value.df) :
            LET w     == ret.value.df[k]
                j     == CHOOSE j \in 1..Len(data) :
                            data[j].ticker = w.ticker /\ data[j].date = w.date
                own   == TickerRows(data, j, 1)
                n     == Len(own)
                value == w["SMA_" \o ToString(p)]
            IN /\ value = data[j]["SMA_" \o ToString(p)]
               /\ IF n < p THEN value.nan
                  ELSE /\ ~value.nan
                       /\ value.n = p
                       /\ value.sum = SumCloses(data, SubSeq(own, n - p + 1, n))

\* C30 witness: the window of (AAPL, 2023-02-15) begins with the bar of
\* 2023-01-16, whose SMA_2 is the mean of its close 3 and of the close 2 of the
\* bar of 2023-01-15, which is outside the window.
C30_Witness_FirstRowDefined ==
    /\ kind = "daily" /\ ret.op = "load_chart" /\ ret.status = "ok"
    /\ ret.value.metadata.ticker = "AAPL" /\ ret.value.metadata.date = 45
    /\ ret.value.df[1].date = 15
    /\ ret.value.df[1].SMA_2 = [nan |-> FALSE, sum |-> 5, n |-> 2]

-----------------------------------------------------------------------------
(* Direct calls of plot_chart: src/src/ui.py *)

\* a chart just created: Chart()
NewChart == [df |-> None, watermark |-> None, legend |-> FALSE, timeframe |-> NoAttr]

\* the windows and the Metadata handed to plot_chart
PlotFrames == {<<>>, <<[idx |-> 0, ticker |-> "AAPL", date |-> 14, close |-> 2]>>}
PlotMetadata ==
    {[ticker |-> "AAPL", date_str |-> strftime_Ymd(14), date |-> 14,
      timeframe |-> timeframe, index |-> 0] : timeframe \in {"1D", "5M"}}

InitPlot ==
    /\ NoCatalog
    /\ indicators = None
    /\ n_days_intraday = N_DAYS_INTRADAY_MAX
    /\ sort_ties = "keep"
    /\ frame = <<>>
    /\ call = NoCall
    /\ earlier = NoCall
    /\ gui = [mode |-> "plot_chart", status |-> "none"]
    /\ proc = NoProc

\* plot_chart(df, metadata, chart), the watermark calls ending as outcomes says
call_plot_chart(df, metadata, outcomes) ==
    LET r == plot_chart_run(df, metadata, chart, outcomes)
    IN /\ chart' = r.chart
       /\ gui' = [mode |-> "plot_chart", status |-> r.status, calls |-> r.calls,
                  df |-> df, metadata |-> metadata, outcomes |-> outcomes]
       /\ UNCHANGED <<kind, charts, data, current_index, current_timeframe, ret, pre,
                      run, indicators, build, direct, proc>>

NextPlot ==
    \E df \in PlotFrames, metadata \in PlotMetadata,
       outcomes \in [1..3 -> WatermarkOutcomes] :
        call_plot_chart(df, metadata, outcomes)

SpecPlot == InitPlot /\ [][NextPlot]_vars

\* plot_chart has been called
Plotted == gui.mode = "plot_chart" /\ gui.status # "none"

\* the method calls of plot_chart
SetCall == [method |-> "set"]
LegendCall == [method |-> "legend"]
WatermarkTop == [method |-> "watermark", text |-> WatermarkText(gui.metadata),
                 vert_align |-> Some("top")]
WatermarkPlain == [method |-> "watermark", text |-> WatermarkText(gui.metadata),
                   vert_align |-> None]
WatermarkNa == [method |-> "watermark", text |-> "na", vert_align |-> None]

\* C24, as stated: plot_chart never raises because of a failing watermark
\* call: it calls set(df), tries the watermark with vert_align='top', on failure
\* the same text without vert_align, on a further failure the watermark "na",
\* and in every case then applies the legend.
C24_NeverRaises ==
    Plotted =>
        /\ gui.status = "ok"
        /\ chart.legend
        /\ gui.calls[Len(gui.calls)] = LegendCall

\* C24, amended: plot_chart calls set(df), then the watermark with
\* vert_align='top'; if that raises AttributeError or TypeError it retries the
\* text without vert_align, and if the retry raises anything it sets the
\* watermark "na"; the legend is applied after the watermark call that returned.
\* An exception of another class out of the first call, and any exception out
\* of the "na" call, leave plot_chart, and the legend is not applied.
C24_WatermarkFallback ==
    Plotted =>
        LET o == gui.outcomes
        IN /\ chart.df = Some(gui.df)
           /\ IF o[1] = "ok"
              THEN /\ gui.status = "ok"
                   /\ gui.calls = <<SetCall, WatermarkTop, LegendCall>>
                   /\ chart.watermark = Some(WatermarkText(gui.metadata))
                   /\ chart.legend
              ELSE IF o[1] = "Exception"
              THEN /\ gui.status = "Exception"
                   /\ gui.calls = <<SetCall, WatermarkTop>>
              ELSE IF o[2] = "ok"
              THEN /\ gui.status = "ok"
                   /\ gui.calls = <<SetCall, WatermarkTop, WatermarkPlain, LegendCall>>
                   /\ chart.watermark = Some(WatermarkText(gui.metadata))
                   /\ chart.legend
              ELSE IF o[3] = "ok"
              THEN /\ gui.status = "ok"
                   /\ gui.calls = <<SetCall, WatermarkTop, WatermarkPlain, WatermarkNa,
                                    LegendCall>>
                   /\ chart.watermark = Some("na")
                   /\ chart.legend
              ELSE /\ gui.status = o[3]
                   /\ gui.calls = <<SetCall, WatermarkTop, WatermarkPlain, WatermarkNa>>

\* C24 witness: on a new chart the first watermark call raised AttributeError
\* and the retry an exception; the watermark is "na" and the legend is applied.
C24_Witness_CompleteFailure ==
    /\ Plotted /\ gui.outcomes = <<"AttributeError", "Exception", "ok">>
    /\ gui.status = "ok" /\ chart.watermark = Some("na") /\ chart.legend
    /\ Len(gui.df) = 1

-----------------------------------------------------------------------------
(* Clicks on the maximize buttons: on_maximize *)

\* the most charts in the list handed to on_maximize
MaxCharts == 3

\* the most clicks on maximize buttons in a run
MaxClicks == 4

\* the charts side by side, each with a button showing FULLSCREEN
InitMaximize ==
    /\ NoCatalog
    /\ indicators = None
    /\ n_days_intraday = N_DAYS_INTRADAY_MAX
    /\ sort_ties = "keep"
    /\ frame = <<>>
    /\ call = NoCall
    /\ earlier = NoCall
    /\ \E n \in 2..MaxCharts :
          gui = [mode |-> "maximize",
                 widths |-> [c \in 1..n |-> "0.5"],
                 buttons |-> [c \in 1..n |-> FULLSCREEN],
                 clicks |-> <<>>, hidden_click |-> FALSE]
    /\ proc = NoProc

\* a click on the maximize button of a chart: on_maximize(target_chart, charts)
click_maximize(target_chart) ==
    LET after == on_maximize(target_chart, gui.widths, gui.buttons)
    IN /\ Len(gui.clicks) < MaxClicks
       /\ gui' = [gui EXCEPT !.widths = after.widths,
                             !.buttons = after.buttons,
                             !.clicks = Append(@, [target |-> target_chart,
                                                   button |-> gui.buttons[target_chart]]),
                             !.hidden_click = @ \/ gui.widths[target_chart] = "0.0"]
       /\ UNCHANGED <<kind, charts, data, current_index, current_timeframe, chart, ret,
                      pre, run, indicators, build, direct, proc>>

NextMaximize == \E target_chart \in 1..Len(gui.widths) : click_maximize(target_chart)

SpecMaximize == InitMaximize /\ [][NextMaximize]_vars

\* C25: on_maximize toggles on the button of the target chart: when it shows
\* FULLSCREEN the target chart gets width 1.0, every other chart width 0.0, and
\* the button shows CLOSE; when it shows CLOSE every chart gets width 0.5 and
\* the button shows FULLSCREEN.
C25_MaximizeToggle ==
    (gui.mode = "maximize" /\ gui.clicks # <<>>) =>
        LET last == gui.clicks[Len(gui.clicks)]
            target == last.target
        IN /\ last.button = FULLSCREEN =>
                 /\ gui.widths[target] = "1.0"
                 /\ \A c \in 1..Len(gui.widths) : c # target => gui.widths[c] = "0.0"
                 /\ gui.buttons[target] = CLOSE
           /\ last.button = CLOSE =>
                 /\ \A c \in 1..Len(gui.widths) : gui.widths[c] = "0.5"
                 /\ gui.buttons[target] = FULLSCREEN

\* C25 witness: the second of three charts was restored by a click on its button,
\* which showed CLOSE.
C25_Witness_Restored ==
    /\ gui.mode = "maximize" /\ Len(gui.widths) = 3
    /\ gui.clicks # <<>>
    /\ gui.clicks[Len(gui.clicks)] = [target |-> 2, button |-> CLOSE]
    /\ gui.widths = <<"0.5", "0.5", "0.5">> /\ gui.buttons[2] = FULLSCREEN

\* the buttons of a grid of two charts tell the layout: CLOSE on a chart exactly
\* when it has width 1.0 and the other 0.0, FULLSCREEN on both when side by side
ButtonsTellLayout ==
    /\ \A c \in 1..2 :
          gui.buttons[c] = CLOSE <=> (gui.widths[c] = "1.0" /\ gui.widths[3 - c] = "0.0")
    /\ gui.widths = <<"0.5", "0.5">> => gui.buttons = <<FULLSCREEN, FULLSCREEN>>

\* C27, as stated: in a grid of two charts, after any sequence of clicks on
\* the maximize button of either chart, the buttons tell the layout.
C27_ButtonsMatchLayout ==
    (gui.mode = "maximize" /\ Len(gui.widths) = 2) => ButtonsTellLayout

\* C27, amended: in a grid of two charts, after any sequence of clicks none of
\* which was made on the button of a chart of width 0.0, the buttons tell the
\* layout.
C27_ButtonsMatchLayoutVisibleClicks ==
    (gui.mode = "maximize" /\ Len(gui.widths) = 2 /\ ~gui.hidden_click) =>
        ButtonsTellLayout

\* C27 witness: the second chart was maximized after the first had been
\* maximized and restored.
C27_Witness_SecondMaximized ==
    /\ gui.mode = "maximize" /\ Len(gui.widths) = 2 /\ ~gui.hidden_click
    /\ gui.clicks # <<>>
    /\ gui.clicks[Len(gui.clicks)] = [target |-> 2, button |-> FULLSCREEN]
    /\ gui.widths = <<"0.0", "1.0">> /\ gui.buttons = <<FULLSCREEN, CLOSE>>

-----------------------------------------------------------------------------
(* Two threads in increase_index on one catalog *)

Threads == 1..2

\* a catalog whose cursor is at a position of its table, and two threads about
\* to call increase_index on it
InitRace ==
    /\ kind = "daily"
    /\ indicators = None
    /\ \E dict_resource \in DictResources : charts \in load_dict(dict_resource)
    /\ data = <<>>
    /\ current_index \in {0} \cup (0..(Len(charts) - 1))
    /\ current_timeframe = NoAttr
    /\ chart = [df |-> None, watermark |-> None, legend |-> FALSE, timeframe |-> NoAttr]
    /\ ret = [op |-> "none"]
    /\ pre = current_index
    /\ run = [op |-> "none", len |-> 0, start |-> 0]
    /\ n_days_intraday = N_DAYS_INTRADAY_MAX
    /\ sort_ties = "keep"
    /\ frame = <<>>
    /\ call = NoCall
    /\ earlier = NoCall
    /\ gui = NoGui
    /\ proc = [of |-> "threads",
               threads |-> [t \in Threads |-> [pc |-> "test", value |-> 0]],
               interleaved |-> FALSE]

\* thread t takes its next step of increase_index; the run is interleaved once
\* a thread steps while the other is inside its call
thread_step(t) ==
    /\ proc.threads[t].pc # "done"
    /\ LET after == increase_index_step(proc.threads[t], current_index, N)
       IN /\ current_index' = after.cursor
          /\ proc' = [proc EXCEPT !.threads[t] = after.thread,
                                  !.interleaved = @ \/ proc.threads[3 - t].pc \notin {"test", "done"}]
    /\ UNCHANGED <<kind, indicators, charts, data, current_timeframe, chart, ret, pre, run,
                   build, direct, gui>>

NextRace == \E t \in Threads : thread_step(t)

SpecRace == InitRace /\ [][NextRace]_vars

BothReturned == proc.of = "threads" /\ \A t \in Threads : proc.threads[t].pc = "done"

\* the cursor two calls of increase_index leave when one runs after the other
Sequential == increase_index(increase_index(pre, N), N)

\* C26: two calls of increase_index running concurrently on one catalog race on
\* the cursor. When no thread steps inside the other's call the cursor ends
\* where two calls in a row leave it; an interleaved run ends there, or where a
\* single call leaves it, or at N, one past the last position.
C26_CursorRace ==
    BothReturned =>
        /\ ~proc.interleaved => current_index = Sequential
        /\ current_index \in {Sequential, increase_index(pre, N), N}

\* C26 witness: both calls returned and the cursor is at N, outside [0, N-1],
\* where two calls in a row from the starting position do not leave it.
C26_Witness_CursorOutOfRange ==
    /\ BothReturned /\ proc.interleaved
    /\ N >= 2 /\ pre \in 0..(N - 1)
    /\ current_index = N
    /\ current_index # Sequential
    /\ current_index \notin 0..(N - 1)

-----------------------------------------------------------------------------
(* Construction of a catalog: __init__, load_dict, load_data *)

\* a file name under which there is no file, and one under which there is a
\* file with these rows
Missing == [exists |-> FALSE, rows |-> <<>>]
File(rows) == [exists |-> TRUE, rows |-> rows]

\* resources with a negative close, which dict_schema rejects
RejectedResources ==
    { << Entry("AAPL", 45, 0 - 1) >>,
      << Entry("AAPL", 45, 4), Entry("MSFT", 45, 0 - 1), Entry("AAPL", 75, 6) >> }

\* load_daily_df without the check of its output
load_daily_df_unchecked(resource) ==
    IF ~resource.exists
    THEN [status |-> "raise", error |-> "FileNotFoundError"]
    ELSE [status |-> "ok", value |-> load_daily_df(resource.rows)]

\* load_daily_df under @check_output(dict_schema): pd.read_feather raises when
\* there is no file, the schema check raises on a value below 0
load_daily_df_checked(resource) ==
    IF ~resource.exists
    THEN [status |-> "raise", error |-> "FileNotFoundError"]
    ELSE IF \E i \in 1..Len(resource.rows) : resource.rows[i].close < 0
         THEN [status |-> "raise", error |-> "SchemaError"]
         ELSE [status |-> "ok", value |-> load_daily_df(resource.rows)]

\* ChartsDailyData(dict_filename, data_filename) or ChartsMinuteData(...) is
\* called: the fields are set, nothing is loaded yet
InitConstruct ==
    /\ kind \in {"daily", "minute"}
    /\ indicators \in IndicatorConfigs \cup {None}
    /\ charts = <<>>
    /\ data = <<>>
    /\ current_index = 0
    /\ current_timeframe = IF kind = "minute" THEN "1M" ELSE NoAttr
    /\ chart = [df |-> None, watermark |-> None, legend |-> FALSE, timeframe |-> NoAttr]
    /\ ret = [op |-> "none"]
    /\ pre = 0
    /\ run = [op |-> "none", len |-> 0, start |-> 0]
    /\ n_days_intraday = N_DAYS_INTRADAY_MAX
    /\ sort_ties = "keep"
    /\ frame = <<>>
    /\ call = NoCall
    /\ earlier = NoCall
    /\ gui = NoGui
    /\ \E dict_filename \in {File(rows) : rows \in DictResources \cup RejectedResources}
                              \cup {Missing},
          data_filename \in {File(rows) : rows \in DataResources \cup RejectedResources}
                              \cup {Missing} :
          proc = [of |-> "__init__", pc |-> "load_dict",
                  dict_filename |-> dict_filename, data_filename |-> data_filename,
                  calls |-> <<>>, error |-> None]

\* self.load_dict(): load_daily_df(self.dict_filename), then the sort by date
\* descending; an exception leaves __init__
construct_load_dict ==
    /\ proc.of = "__init__" /\ proc.pc = "load_dict"
    /\ LET loaded == load_daily_df_checked(proc.dict_filename)
           called == Append(proc.calls, "load_daily_df(dict_filename)")
       IN IF loaded.status = "ok"
          THEN /\ charts' \in sort_date_descending(loaded.value)
               /\ proc' = [proc EXCEPT !.pc = "load_data", !.calls = called]
          ELSE /\ charts' = charts
               /\ proc' = [proc EXCEPT !.pc = "raised", !.calls = called,
                                       !.error = Some(loaded.error)]
    /\ UNCHANGED <<kind, indicators, data, current_index, current_timeframe, chart, ret,
                   pre, run, build, direct, gui>>

\* self.load_data(): load_daily_df(self.data_filename), then apply_indicators;
\* an exception leaves __init__, otherwise __init__ returns the catalog
construct_load_data ==
    /\ proc.of = "__init__" /\ proc.pc = "load_data"
    /\ LET loaded == load_daily_df_checked(proc.data_filename)
           called == Append(proc.calls, "load_daily_df(data_filename)")
       IN IF loaded.status = "ok"
          THEN /\ data' = apply_indicators(loaded.value, indicators)
               /\ proc' = [proc EXCEPT !.pc = "returned",
                                       !.calls = Append(called, "apply_indicators")]
          ELSE /\ data' = data
               /\ proc' = [proc EXCEPT !.pc = "raised", !.calls = called,
                                       !.error = Some(loaded.error)]
    /\ UNCHANGED <<kind, indicators, charts, current_index, current_timeframe, chart, ret,
                   pre, run, build, direct, gui>>

NextConstruct ==
    \/ construct_load_dict
    \/ construct_load_data

SpecConstruct == InitConstruct /\ [][NextConstruct]_vars

\* the resource is a file whose values pass the schema
Loadable(resource) ==
    resource.exists /\ \A i \in 1..Len(resource.rows) : resource.rows[i].close >= 0

\* the caller holds a catalog: __init__ returned
Exposed == proc.of = "__init__" /\ proc.pc = "returned"

\* the calls made so far are the first calls of a successful construction, each
\* made at most once
InOrder ==
    \E k \in 0..3 :
        proc.calls = SubSeq(<<"load_daily_df(dict_filename)", "load_daily_df(data_filename)",
                              "apply_indicators">>, 1, k)

\* C22: construction is all-or-nothing. A catalog is exposed only when both
\* resources loaded, and then the catalog table was loaded first, the price
\* table second and apply_indicators was applied to it once; when a resource is
\* missing or violates the schema the constructor raises at the first failing
\* load, makes no further call, and exposes no catalog.
C22_ConstructionAllOrNothing ==
    proc.of = "__init__" =>
        /\ InOrder
        /\ Exposed =>
              /\ Loadable(proc.dict_filename) /\ Loadable(proc.data_filename)
              /\ proc.calls = <<"load_daily_df(dict_filename)", "load_daily_df(data_filename)",
                                "apply_indicators">>
              /\ charts \in load_dict(proc.dict_filename.rows)
              /\ data = load_data(proc.data_filename.rows, indicators)
        /\ proc.pc = "load_data" =>
              /\ Loadable(proc.dict_filename)
              /\ proc.calls = <<"load_daily_df(dict_filename)">>
              /\ charts \in load_dict(proc.dict_filename.rows) /\ data = <<>>
        /\ proc.pc = "load_dict" => proc.calls = <<>> /\ charts = <<>> /\ data = <<>>
        /\ proc.pc = "raised" =>
              /\ ~Loadable(proc.dict_filename) \/ ~Loadable(proc.data_filename)
              /\ proc.error \in {Some("FileNotFoundError"), Some("SchemaError")}
              /\ proc.calls =
                    IF ~Loadable(proc.dict_filename)
                    THEN <<"load_daily_df(dict_filename)">>
                    ELSE <<"load_daily_df(dict_filename)", "load_daily_df(data_filename)">>
              /\ ~Loadable(proc.dict_filename) => charts = <<>>
              /\ data = <<>>

\* C22 witness: the catalog table loaded, the price table violated the schema,
\* and the constructor raised with the catalog table in the abandoned object.
C22_Witness_PriceTableRejected ==
    /\ proc.of = "__init__" /\ proc.pc = "raised"
    /\ proc.error = Some("SchemaError")
    /\ Loadable(proc.dict_filename) /\ proc.data_filename.rows \in RejectedResources
    /\ charts # <<>> /\ data = <<>>

-----------------------------------------------------------------------------
(* The charts of the user interface and their catalogs: src/src/ui.py *)

\* a catalog object: its class and its fields
ThisCatalog ==
    [kind |-> kind, charts |-> charts, data |-> data, current_index |-> current_index,
     current_timeframe |-> current_timeframe]

\* no second catalog: a single chart is shown
NoSecond ==
    [kind |-> "none", charts |-> <<>>, data |-> <<>>, current_index |-> 0,
     current_timeframe |-> NoAttr]

\* chart_data.get_metadata(index) of a catalog object
get_metadata_of(chart_data, index) ==
    IF ~iloc_valid(chart_data.charts, index) THEN Raise("IndexError")
    ELSE LET ticker == iloc(chart_data.charts, index).ticker
             date   == iloc(chart_data.charts, index).date
         IN Ok([ticker |-> ticker, date_str |-> strftime_Ymd(date), date |-> date,
                timeframe |-> IF chart_data.kind = "daily" THEN "1D"
                              ELSE chart_data.current_timeframe,
                index |-> index])

\* chart_data.load_chart(index) of a catalog object; index is None when omitted
load_chart_of(chart_data, index) ==
    LET i == IF index = None THEN chart_data.current_index ELSE index[1]
        metadata == get_metadata_of(chart_data, i)
    IN IF metadata.status # "ok" THEN metadata
       ELSE Ok([df |-> load_daily_data(metadata.value.ticker, metadata.value.date,
                                       chart_data.data),
                metadata |-> metadata.value])

\* chart_data.next_chart(): the catalog after increase_index, and what
\* load_chart returns or raises at the new cursor
next_chart_of(chart_data) ==
    LET moved == [chart_data EXCEPT
                     !.current_index = increase_index(@, Len(chart_data.charts))]
    IN [catalog |-> moved, loaded |-> load_chart_of(moved, Some(moved.current_index))]

\* chart_data.previous_chart()
previous_chart_of(chart_data) ==
    LET moved == [chart_data EXCEPT
                     !.current_index = decrease_index(@, Len(chart_data.charts))]
    IN [catalog |-> moved, loaded |-> load_chart_of(moved, Some(moved.current_index))]

\* the columns of a frame
ColumnsOfFrame(t) == IF t = <<>> THEN {} ELSE DOMAIN t[1]

\* plot_indicators(df, chart): the lines of the chart after the call; columns
\* are the columns of df
RECURSIVE plot_indicators(_, _, _)
plot_indicators(columns, lines, indicators_list) ==
    IF indicators_list = <<>> THEN lines
    ELSE LET indicator == Head(indicators_list)
             col_name  == "SMA_" \o ToString(indicator.parameters[1]["period"])
         IN plot_indicators(columns,
                            IF IndicatorApplies(indicator) /\ col_name \in columns
                            THEN Append(lines, col_name) ELSE lines,
                            Tail(indicators_list))

\* config.indicators if config.indicators is not None else []
indicators_list_of(config_indicators) ==
    IF config_indicators # None THEN config_indicators[1] ELSE <<>>

\* the file save_screenshot writes, or the exception of get_metadata
screenshot_file(chart_data, suffix) ==
    LET metadata == get_metadata_of(chart_data, chart_data.current_index)
    IN IF metadata.status # "ok" THEN metadata
       ELSE Ok("screenshots/" \o metadata.value.ticker \o "_" \o metadata.value.date_str
               \o suffix)

\* on_timeframe_change(chart, chart_data, timeframe): the chart, the catalog
\* and the Metadata plotted after the call
on_timeframe_change_of(c, chart_data, timeframe) ==
    LET has_set_timeframe == chart_data.kind = "minute"
        c1     == [c EXCEPT !.timeframe = timeframe]
        cat1   == IF has_set_timeframe
                  THEN [chart_data EXCEPT !.current_timeframe = timeframe]
                  ELSE chart_data
        loaded == load_chart_of(cat1, Some(cat1.current_index))
    IN IF loaded.status # "ok"
       THEN [chart |-> c1, catalog |-> cat1, status |-> loaded.status, plotted |-> None]
       ELSE LET metadata == IF has_set_timeframe THEN loaded.value.metadata
                            ELSE [loaded.value.metadata EXCEPT !.timeframe = timeframe]
            IN [chart |-> plot_chart(loaded.value.df, metadata, c1), catalog |-> cat1,
                status |-> "ok", plotted |-> Some(metadata)]

\* the entries of the catalog resources of the charts
GridEntries ==
    << Entry("AAPL", 45, 1), Entry("MSFT", 14, 1), Entry("AAPL", 14, 1), Entry("MSFT", 45, 1) >>

\* the label chosen in the timeframe switcher
SwitcherOptions == {"5M"}

\* catalogs have been constructed and their cursors possibly moved; no chart
\* exists yet
InitGrid ==
    /\ kind \in {"daily", "minute"}
    /\ indicators \in IndicatorConfigs \cup {None}
    /\ \E n \in 1..MaxN :
          charts \in load_dict(SubSeq(GridEntries, 1, IF n < Len(GridEntries) THEN n
                                                       ELSE Len(GridEntries)))
    /\ \E data_resource \in DataResources : data = load_data(data_resource, indicators)
    /\ current_index \in IndexInputs
    /\ current_timeframe = IF kind = "minute" THEN "1M" ELSE NoAttr
    /\ chart = NewChart
    /\ ret = [op |-> "none"]
    /\ pre = current_index
    /\ run = [op |-> "none", len |-> 0, start |-> 0]
    /\ n_days_intraday = N_DAYS_INTRADAY_MAX
    /\ sort_ties = "keep"
    /\ frame = <<>>
    /\ call = NoCall
    /\ earlier = NoCall
    /\ gui = [mode |-> "start", catalog2 |-> NoSecond, chart2 |-> NewChart,
              lines |-> << <<>>, <<>> >>, created |-> << <<>>, <<>> >>,
              shown |-> <<None, None>>, start2 |-> 0,
              last |-> [event |-> "none", status |-> "ok", files |-> <<>>]]
    /\ proc = NoProc

\* the variables no event of the charts writes
GridFrozen == UNCHANGED <<kind, indicators, charts, data, ret, pre, run, build, direct, proc>>

Event(name, status) == [event |-> name, status |-> status, files |-> <<>>]

\* create_and_bind_chart(chart_data): a new chart with entry 0 of the catalog
\* plotted and the indicator lines drawn
create_and_bind_chart ==
    /\ gui.mode = "start"
    /\ LET loaded == load_chart_of(ThisCatalog, Some(0))
       IN IF loaded.status # "ok"
          THEN /\ chart' = NewChart
               /\ gui' = [gui EXCEPT !.mode = "failed",
                                     !.last = Event("create_and_bind_chart", loaded.status)]
          ELSE LET drawn == plot_indicators(ColumnsOfFrame(data), <<>>,
                                            indicators_list_of(indicators))
               IN /\ chart' = plot_chart(loaded.value.df, loaded.value.metadata, NewChart)
                  /\ gui' = [gui EXCEPT !.mode = "single",
                                        !.lines[1] = drawn, !.created[1] = drawn,
                                        !.shown[1] = Some(loaded.value.metadata),
                                        !.last = Event("create_and_bind_chart", "ok")]
    /\ UNCHANGED <<current_index, current_timeframe>>
    /\ GridFrozen

\* the catalogs a caller hands to create_dual_chart_grid as chart_data2
SecondCatalogs ==
    {[kind |-> "minute", charts |-> t, data |-> data, current_index |-> i,
      current_timeframe |-> "1M"] :
        t \in {Reverse(charts), SubSeq(charts, 1, 1)}, i \in {current_index}}

\* create_dual_chart_grid(chart_data1, chart_data2): without chart_data2 an
\* intraday catalog is constructed from the catalog resource of chart_data1;
\* each chart gets entry 0 of its catalog plotted and its indicator lines drawn
create_dual_chart_grid(chart_data2) ==
    /\ gui.mode = "start"
    /\ LET second  == IF chart_data2 # None THEN chart_data2[1]
                      ELSE [kind |-> "minute", charts |-> charts, data |-> data,
                            current_index |-> 0, current_timeframe |-> "1M"]
           loaded1 == load_chart_of(ThisCatalog, Some(0))
           loaded2 == load_chart_of(second, Some(0))
           drawn1  == plot_indicators(ColumnsOfFrame(data), <<>>,
                                      indicators_list_of(indicators))
           drawn2  == plot_indicators(ColumnsOfFrame(second.data), <<>>,
                                      indicators_list_of(indicators))
       IN IF loaded1.status # "ok"
          THEN /\ chart' = NewChart
               /\ gui' = [gui EXCEPT !.mode = "failed", !.catalog2 = second,
                                     !.start2 = second.current_index,
                                     !.last = Event("create_dual_chart_grid", loaded1.status)]
          ELSE /\ chart' = plot_chart(loaded1.value.df, loaded1.value.metadata, NewChart)
               /\ gui' = IF loaded2.status # "ok"
                         THEN [gui EXCEPT !.mode = "failed", !.catalog2 = second,
                                          !.start2 = second.current_index,
                                          !.lines[1] = drawn1, !.created[1] = drawn1,
                                          !.shown[1] = Some(loaded1.value.metadata),
                                          !.last = Event("create_dual_chart_grid",
                                                         loaded2.status)]
                         ELSE [gui EXCEPT !.mode = "dual", !.catalog2 = second,
                                          !.start2 = second.current_index,
                                          !.chart2 = plot_chart(loaded2.value.df,
                                                                loaded2.value.metadata,
                                                                NewChart),
                                          !.lines = <<drawn1, drawn2>>,
                                          !.created = <<drawn1, drawn2>>,
                                          !.shown = <<Some(loaded1.value.metadata),
                                                      Some(loaded2.value.metadata)>>,
                                          !.last = Event("create_dual_chart_grid", "ok")]
    /\ UNCHANGED <<current_index, current_timeframe>>
    /\ GridFrozen

\* a navigation event of the single chart: the catalog moved, the chart plotted
\* unless load_chart raised
navigate(name, moved) ==
    /\ gui.mode = "single"
    /\ current_index' = moved.catalog.current_index
    /\ IF moved.loaded.status # "ok"
       THEN /\ chart' = chart
            /\ gui' = [gui EXCEPT !.last = Event(name, moved.loaded.status)]
       ELSE /\ chart' = plot_chart(moved.loaded.value.df, moved.loaded.value.metadata, chart)
            /\ gui' = [gui EXCEPT !.shown[1] = Some(moved.loaded.value.metadata),
                                  !.last = Event(name, "ok")]
    /\ UNCHANGED current_timeframe
    /\ GridFrozen

\* on_up that draws the indicator lines again after plotting
on_up_draws_indicators ==
    LET moved == next_chart_of(ThisCatalog)
    IN /\ gui.mode = "single"
       /\ current_index' = moved.catalog.current_index
       /\ IF moved.loaded.status # "ok"
          THEN /\ chart' = chart
               /\ gui' = [gui EXCEPT !.last = Event("on_up", moved.loaded.status)]
          ELSE /\ chart' = plot_chart(moved.loaded.value.df, moved.loaded.value.metadata,
                                      chart)
               /\ gui' = [gui EXCEPT !.shown[1] = Some(moved.loaded.value.metadata),
                                     !.lines[1] = plot_indicators(ColumnsOfFrame(data), @,
                                                      indicators_list_of(indicators)),
                                     !.last = Event("on_up", "ok")]
       /\ UNCHANGED current_timeframe
       /\ GridFrozen

\* on_up(chart, chart_data)
on_up == navigate("on_up", next_chart_of(ThisCatalog))

\* on_down(chart, chart_data)
on_down == navigate("on_down", previous_chart_of(ThisCatalog))

\* a navigation event of the two charts: the first catalog moves and the first
\* chart is plotted, then the second catalog moves and the second chart is
\* plotted; an exception of load_chart ends the handler where it is raised
navigate_dual(name, moved1, moved2) ==
    /\ gui.mode = "dual"
    /\ current_index' = moved1.catalog.current_index
    /\ IF moved1.loaded.status # "ok"
       THEN /\ chart' = chart
            /\ gui' = [gui EXCEPT !.last = Event(name, moved1.loaded.status)]
       ELSE /\ chart' = plot_chart(moved1.loaded.value.df, moved1.loaded.value.metadata,
                                   chart)
            /\ gui' = IF moved2.loaded.status # "ok"
                      THEN [gui EXCEPT !.shown[1] = Some(moved1.loaded.value.metadata),
                                       !.catalog2 = moved2.catalog,
                                       !.last = Event(name, moved2.loaded.status)]
                      ELSE [gui EXCEPT !.shown = <<Some(moved1.loaded.value.metadata),
                                                   Some(moved2.loaded.value.metadata)>>,
                                       !.catalog2 = moved2.catalog,
                                       !.chart2 = plot_chart(moved2.loaded.value.df,
                                                             moved2.loaded.value.metadata,
                                                             gui.chart2),
                                       !.last = Event(name, "ok")]
    /\ UNCHANGED current_timeframe
    /\ GridFrozen

\* on_up_dual that moves and plots the first catalog only
on_up_dual_first_only ==
    navigate_dual("on_up_dual", next_chart_of(ThisCatalog),
                  [catalog |-> gui.catalog2, loaded |-> load_chart_of(gui.catalog2, None)])

\* on_up_dual(chart1, chart2, chart_data1, chart_data2)
on_up_dual == navigate_dual("on_up_dual", next_chart_of(ThisCatalog), next_chart_of(gui.catalog2))

\* on_down_dual(chart1, chart2, chart_data1, chart_data2)
on_down_dual ==
    navigate_dual("on_down_dual", previous_chart_of(ThisCatalog), previous_chart_of(gui.catalog2))

\* the timeframe switcher of the first chart of the grid
switch_timeframe_1(timeframe) ==
    /\ gui.mode = "dual"
    /\ LET after == on_timeframe_change_of(chart, ThisCatalog, timeframe)
       IN /\ chart' = after.chart
          /\ current_timeframe' = after.catalog.current_timeframe
          /\ gui' = [gui EXCEPT !.shown[1] = IF after.status = "ok" THEN after.plotted ELSE @,
                                !.last = Event("on_timeframe_change", after.status)]
    /\ UNCHANGED current_index
    /\ GridFrozen

\* the timeframe switcher of the second chart of the grid
switch_timeframe_2(timeframe) ==
    /\ gui.mode = "dual"
    /\ LET after == on_timeframe_change_of(gui.chart2, gui.catalog2, timeframe)
       IN gui' = [gui EXCEPT !.chart2 = after.chart, !.catalog2 = after.catalog,
                             !.shown[2] = IF after.status = "ok" THEN after.plotted ELSE @,
                             !.last = Event("on_timeframe_change", after.status)]
    /\ UNCHANGED <<current_index, current_timeframe, chart>>
    /\ GridFrozen

\* save_screenshot(chart, chart_data)
save_screenshot ==
    /\ gui.mode = "single"
    /\ LET file == screenshot_file(ThisCatalog, "_screenshot.png")
       IN gui' = [gui EXCEPT !.last = [event |-> "save_screenshot", status |-> file.status,
                                       files |-> IF file.status = "ok" THEN <<file.value>>
                                                 ELSE <<>>]]
    /\ UNCHANGED <<current_index, current_timeframe, chart>>
    /\ GridFrozen

\* save_screenshot_dual(chart1, chart2, chart_data1, chart_data2): the first
\* file is written before the Metadata of the second catalog is asked for
save_screenshot_dual ==
    /\ gui.mode = "dual"
    /\ LET file1 == screenshot_file(ThisCatalog, "_chart1_screenshot.png")
           file2 == screenshot_file(gui.catalog2, "_chart2_screenshot.png")
       IN gui' = [gui EXCEPT !.last =
                     IF file1.status # "ok"
                     THEN [event |-> "save_screenshot_dual", status |-> file1.status,
                           files |-> <<>>]
                     ELSE IF file2.status # "ok"
                     THEN [event |-> "save_screenshot_dual", status |-> file2.status,
                           files |-> <<file1.value>>]
                     ELSE [event |-> "save_screenshot_dual", status |-> "ok",
                           files |-> <<file1.value, file2.value>>]]
    /\ UNCHANGED <<current_index, current_timeframe, chart>>
    /\ GridFrozen

\* the creation of a chart or of a grid, then the events of its hotkeys and
\* switchers
NextGrid ==
    \/ create_and_bind_chart
    \/ \E chart_data2 \in {None} \cup {Some(c) : c \in SecondCatalogs} :
          create_dual_chart_grid(chart_data2)
    \/ on_up
    \/ on_down
    \/ save_screenshot
    \/ on_up_dual
    \/ on_down_dual
    \/ \E timeframe \in SwitcherOptions : switch_timeframe_1(timeframe)
    \/ \E timeframe \in SwitcherOptions : switch_timeframe_2(timeframe)
    \/ save_screenshot_dual

SpecGrid == InitGrid /\ [][NextGrid]_vars

\* C23: indicator lines are drawn only when a chart is created: after any
\* sequence of on_up, on_down, on_up_dual, on_down_dual and timeframe changes
\* each chart has the lines it had when create_and_bind_chart or
\* create_dual_chart_grid returned, one per usable SMA entry of the configuration.
C23_IndicatorLinesOnlyAtCreation ==
    (gui.mode \in {"single", "dual"}) =>
        /\ gui.lines = gui.created
        /\ \A c \in 1..2 :
              (c = 1 \/ gui.mode = "dual") =>
                  Len(gui.lines[c]) =
                      Cardinality({i \in 1..Len(indicators_list_of(indicators)) :
                                      IndicatorApplies(indicators_list_of(indicators)[i])})

\* C23 witness: a chart created with one indicator line still has that one
\* line after a navigation event plotted another entry.
C23_Witness_NavigatedWithLine ==
    /\ gui.mode = "single"
    /\ gui.last = Event("on_up", "ok")
    /\ gui.lines[1] = <<"SMA_2">>
    /\ current_index = 1

\* a grid whose two catalogs have as many entries and started at one cursor
SameSizeSameStart ==
    /\ gui.mode = "dual"
    /\ Len(gui.catalog2.charts) = N
    /\ gui.start2 = pre

ShowsCursorEntry(shown, chart_data) ==
    /\ shown # None
    /\ iloc_valid(chart_data.charts, chart_data.current_index)
    /\ shown[1].ticker = iloc(chart_data.charts, chart_data.current_index).ticker
    /\ shown[1].date = iloc(chart_data.charts, chart_data.current_index).date

\* the file is named after the entry the chart shows
NamedAfterShown(file, shown, suffix) ==
    file = "screenshots/" \o shown[1].ticker \o "_" \o shown[1].date_str \o suffix

\* C29: for catalogs whose cursor is at a position of the table when the chart
\* is created: after create_and_bind_chart or create_dual_chart_grid and any
\* sequence of navigation and timeframe events, the entry last plotted on each
\* chart is the entry at the cursor of its catalog, and save_screenshot and
\* save_screenshot_dual name their files after the ticker and date shown.
C29_ShownEntryIsCursorEntry ==
    /\ (gui.mode = "single" /\ InRange(pre)) =>
          /\ ShowsCursorEntry(gui.shown[1], ThisCatalog)
          /\ gui.last.event = "save_screenshot" =>
                /\ gui.last.status = "ok"
                /\ NamedAfterShown(gui.last.files[1], gui.shown[1], "_screenshot.png")
    /\ (gui.mode = "dual" /\ InRange(pre)
          /\ gui.start2 \in 0..(Len(gui.catalog2.charts) - 1)) =>
          /\ ShowsCursorEntry(gui.shown[1], ThisCatalog)
          /\ ShowsCursorEntry(gui.shown[2], gui.catalog2)
          /\ gui.last.event = "save_screenshot_dual" =>
                /\ gui.last.status = "ok"
                /\ NamedAfterShown(gui.last.files[1], gui.shown[1], "_chart1_screenshot.png")
                /\ NamedAfterShown(gui.last.files[2], gui.shown[2], "_chart2_screenshot.png")

====
